---------------------------- MODULE Spec2Model ----------------------------
(***************************************************************************)
(* labelCloud: the sphere collection (SphereController), the Sphere model, *)
(* the drawing coordinator (DrawingManager) and the sphere picking         *)
(* strategy, as state machines.                                            *)
(*                                                                         *)
(* Lengths (radii, coordinates, scroll deltas) are integers in units of    *)
(* 1/500 world unit, so that register_scrolling's distance / 500.0 is one  *)
(* unit per scroll tick and 0.01 = 5, 0.03 = 15, 0.5 = 250.                *)
(* Python's Optional[int] is a sequence: None is << >>, the integer i is   *)
(* << i >>.  Python list index i is TLA+ sequence index i + 1.             *)
(***************************************************************************)
EXTENDS Integers, Sequences, FiniteSets, TLC

VARIABLES
    spheres,            \* SphereController.spheres
    active_sphere_id,   \* SphereController.active_sphere_id
    bboxes,             \* BoundingBoxController.bboxes
    active_bbox_id,     \* BoundingBoxController.active_bbox_id
    strategies,         \* the labeling strategy objects, by object identity
    drawing_strategy,   \* DrawingManager.drawing_strategy (an object or None)
    dm_primitive_type,  \* DrawingManager.primitive_type
    ctl,                \* Controller: cursor positions, ctrl_pressed, scroll_mode, side_mode, selected_side, primitive_type
    align,              \* AlignMode: is_active and the points it got
    current_id,         \* PointCloudManger.current_id
    label_files,        \* the label file of each point cloud, as export_labels wrote it
    scrolled,           \* history: scroll deltas each strategy object got since it was fresh or reset
    last                \* history: the operation that produced this state, its inputs, the state before it

vars == <<spheres, active_sphere_id, bboxes, active_bbox_id, strategies,
          drawing_strategy, dm_primitive_type, ctl, align, current_id,
          label_files, scrolled, last>>

sphereVars == <<spheres, active_sphere_id>>
bboxVars   == <<bboxes, active_bbox_id>>
drawVars   == <<strategies, drawing_strategy, dm_primitive_type, scrolled>>
pcdVars    == <<current_id, label_files>>
ctlVars    == <<ctl, align, current_id, label_files>>

\* identities of the strategy objects alive at once
StrategyObjs == {1, 2}

---------------------------------------------------------------------------
(* Optional values *)
None == << >>
Some(i) == << i >>
Val(o) == o[1]

---------------------------------------------------------------------------
(* Bounds of the model *)
MaxSpheres == 3        \* spheres in the collection
MaxImport == 2         \* spheres in one imported label list
MaxDrawn == 2          \* primitives of each kind in the drawing specification
MaxRadius == 40        \* largest radius reached by the radius operations
MaxRadiusSpheres == 1  \* spheres in the collection of the radius specification
MaxScrolls == 2        \* scroll events one strategy gets between resets
MaxFiles == 2          \* point cloud files in the folder
MaxNavPrimitives == 1  \* primitives of each kind in the navigation specification
MaxDimension == 360    \* largest dimension a box is scrolled to
MaxKeySteps == 2       \* steps the keys move a box away from where it was added

(* Program constants, in units of 1/500 *)
MIN_RADIUS == 5
STD_SPHERE_SCALING == 15
STD_SPHERE_RADIUS == 250
SPHERE_POINTS_NEEDED == 1
PICKING_POINTS_NEEDED == 2
STD_TRANSLATION == 15

(* World points get_world_coords can return: the origin, a point at        *)
(* distance 300 (0.6) and one at distance 400 (0.8) from it.               *)
P0 == <<0, 0, 0>>
P1 == <<300, 0, 0>>
P2 == <<0, 400, 0>>
Points == {P0, P1, P2}

Max(a, b) == IF a >= b THEN a ELSE b
Min(a, b) == IF a <= b THEN a ELSE b

---------------------------------------------------------------------------
(* model/sphere.py *)

\* Sphere.__init__: the radius is floored, id is None, selected is False
NewSphere(center, radius) ==
    [center |-> center, radius |-> Max(radius, MIN_RADIUS), id |-> None,
     selected |-> FALSE]

\* Sphere.set_radius
SetRadius(s, radius) == [s EXCEPT !.radius = Max(radius, MIN_RADIUS)]

\* change_radius without the floor
ChangeRadiusNoFloor(s, delta) == [s EXCEPT !.radius = s.radius + delta]

\* Sphere.change_radius
ChangeRadius(s, delta) == [s EXCEPT !.radius = Max(s.radius + delta, MIN_RADIUS)]

\* Sphere.set_center
SetCenter(s, p) == [s EXCEPT !.center = p]

\* Sphere.translate
Translate(s, vector) ==
    [s EXCEPT !.center = <<@[1] + vector[1], @[2] + vector[2], @[3] + vector[3]>>]

\* squared value of np.linalg.norm(a - b)
Dist2(a, b) ==
    (a[1] - b[1]) * (a[1] - b[1]) + (a[2] - b[2]) * (a[2] - b[2])
        + (a[3] - b[3]) * (a[3] - b[3])

\* WithinReach with a tolerance of 2 x radius
WithinReachWide(d2, radius) == d2 <= 4 * radius * radius

\* distance <= radius * 1.5, on the squares: 4 d^2 <= 9 r^2 (exact
\* arithmetic; the rounding of the floating-point product is not modelled)
WithinReach(d2, radius) == 4 * d2 <= 9 * radius * radius

---------------------------------------------------------------------------
(* control/sphere_controller.py: operations on the pair (spheres, active id), *)
(* each returning the pair after the call.                                  *)

Coll(sp, act) == [spheres |-> sp, active |-> act]

\* SphereController.has_active_sphere
HasActiveSphere(sp, act) ==
    act # None /\ 0 <= Val(act) /\ Val(act) < Len(sp)

\* get_active_sphere().selected = False, when there is an active sphere
DeselectActive(sp, act) ==
    IF HasActiveSphere(sp, act)
    THEN [sp EXCEPT ![Val(act) + 1].selected = FALSE]
    ELSE sp

\* set_active_sphere whose else branch clears the id and leaves the flag
SetActiveSphereKeepsFlag(sp, act, sphere_id) ==
    IF sphere_id # None /\ 0 <= Val(sphere_id) /\ Val(sphere_id) < Len(sp)
    THEN Coll([DeselectActive(sp, act) EXCEPT ![Val(sphere_id) + 1].selected = TRUE],
              sphere_id)
    ELSE Coll(sp, None)

\* SphereController.set_active_sphere
SetActiveSphereOp(sp, act, sphere_id) ==
    IF sphere_id # None /\ 0 <= Val(sphere_id) /\ Val(sphere_id) < Len(sp)
    THEN Coll([DeselectActive(sp, act) EXCEPT ![Val(sphere_id) + 1].selected = TRUE],
              sphere_id)
    ELSE Coll(DeselectActive(sp, act), None)

\* add_sphere without the call of set_active_sphere
AddSphereNotActivated(sp, act, sphere) ==
    Coll(Append(sp, [sphere EXCEPT !.id = Some(Len(sp))]), act)

\* SphereController.add_sphere
AddSphereOp(sp, act, sphere) ==
    LET withId == [sphere EXCEPT !.id = Some(Len(sp))]
    IN  SetActiveSphereOp(Append(sp, withId), act, withId.id)

\* SphereController.set_spheres
SetSpheresOp(sp, act, newSpheres) ==
    IF newSpheres # << >>
    THEN SetActiveSphereOp(newSpheres, act, Some(0))
    ELSE Coll(newSpheres, None)

\* the loop of select_sphere_by_ray: index (from 1) of the first sphere at
\* minimum centre distance; 0 when there is no sphere
ClosestSphere(sp, world_pos) ==
    IF sp = << >> THEN 0
    ELSE CHOOSE i \in 1..Len(sp) :
            /\ \A j \in 1..Len(sp) :
                  Dist2(sp[i].center, world_pos) <= Dist2(sp[j].center, world_pos)
            /\ \A j \in 1..(i - 1) :
                  Dist2(sp[j].center, world_pos) > Dist2(sp[i].center, world_pos)

\* SphereController.select_sphere_by_ray, world_pos being get_world_coords(x, y)
SelectSphereByRayOp(sp, act, world_pos) ==
    LET c == ClosestSphere(sp, world_pos)
    IN  IF c # 0 /\ WithinReach(Dist2(sp[c].center, world_pos), sp[c].radius)
        THEN SetActiveSphereOp(sp, act, sp[c].id)
        ELSE Coll(sp, act)

\* SphereController.deselect_sphere
DeselectSphereOp(sp, act) ==
    IF HasActiveSphere(sp, act)
    THEN Coll(DeselectActive(sp, act), None)
    ELSE Coll(sp, act)

\* the deletion without the renumbering loop
RemoveNoRenumber(sp, k) == SubSeq(sp, 1, k) \o SubSeq(sp, k + 2, Len(sp))

\* the deletion removing the first sphere instead of the one at k
RemoveFirstAndRenumber(sp, k) ==
    LET rest == SubSeq(sp, 2, Len(sp))
    IN  [i \in 1..Len(rest) |-> [rest[i] EXCEPT !.id = Some(i - 1)]]

\* del self.spheres[k] followed by the renumbering loop
RemoveAndRenumber(sp, k) ==
    LET rest == SubSeq(sp, 1, k) \o SubSeq(sp, k + 2, Len(sp))
    IN  [i \in 1..Len(rest) |-> [rest[i] EXCEPT !.id = Some(i - 1)]]

\* delete_current_sphere without the clamp to the new last index
ActiveAfterDeleteNoClamp(act, newLen) == IF newLen = 0 THEN None ELSE act

\* the active id delete_current_sphere leaves for a list of newLen spheres
ActiveAfterDelete(act, newLen) ==
    IF newLen = 0 THEN None
    ELSE IF Val(act) >= newLen THEN Some(newLen - 1)
    ELSE act

\* SphereController.delete_current_sphere
DeleteCurrentSphereOp(sp, act) ==
    IF ~HasActiveSphere(sp, act) THEN Coll(sp, act)
    ELSE LET rest == RemoveAndRenumber(sp, Val(act))
             newAct == ActiveAfterDelete(act, Len(rest))
         IN  IF rest # << >> /\ Val(act) >= Len(rest)
             THEN Coll([rest EXCEPT ![Val(newAct) + 1].selected = TRUE], newAct)
             ELSE Coll(rest, newAct)

\* SphereController.adjust_radius
AdjustRadiusOp(sp, act, increase) ==
    IF HasActiveSphere(sp, act)
    THEN Coll([sp EXCEPT ![Val(act) + 1] =
                  ChangeRadius(@, IF increase THEN STD_SPHERE_SCALING
                                  ELSE -STD_SPHERE_SCALING)], act)
    ELSE Coll(sp, act)

\* SphereController.translate_along_y
TranslateAlongYOp(sp, act, forward) ==
    IF HasActiveSphere(sp, act)
    THEN Coll([sp EXCEPT ![Val(act) + 1] =
                  Translate(@, <<0, IF forward THEN STD_TRANSLATION
                                    ELSE -STD_TRANSLATION, 0>>)], act)
    ELSE Coll(sp, act)

\* SphereController.update_radius
UpdateRadiusOp(sp, act, value) ==
    IF HasActiveSphere(sp, act)
    THEN Coll([sp EXCEPT ![Val(act) + 1] = SetRadius(@, value)], act)
    ELSE Coll(sp, act)

\* SphereController.set_center
SetCenterOp(sp, act, p) ==
    IF HasActiveSphere(sp, act)
    THEN Coll([sp EXCEPT ![Val(act) + 1] = SetCenter(@, p)], act)
    ELSE Coll(sp, act)

---------------------------------------------------------------------------
(* labeling_strategies: a strategy object is a record; kind "free" is a    *)
(* slot holding no object.                                                 *)

FreeSlot == [kind |-> "free"]

\* BaseLabelingStrategy.__init__: no point registered yet
BaseInit(kind) == [kind |-> kind, points_registered |-> 0, point_1 |-> None]

\* BaseLabelingStrategy.reset: the registered points are cleared
BaseReset(s) == [s EXCEPT !.points_registered = 0, !.point_1 = None]

\* f with the fields of g added
WithFields(f, g) ==
    [x \in DOMAIN f \cup DOMAIN g |-> IF x \in DOMAIN g THEN g[x] ELSE f[x]]

\* SpherePickingStrategy.__init__
NewSpherePicking ==
    WithFields(BaseInit("sphere_picking"),
               [tmp_p1 |-> None, sphere_radius |-> STD_SPHERE_RADIUS])

\* PickingStrategy.__init__
NewPicking ==
    WithFields(BaseInit("picking"), [point_2 |-> None, tmp_p1 |-> None])

NewStrategy(kind) == IF kind = "sphere_picking" THEN NewSpherePicking ELSE NewPicking

\* SpherePickingStrategy.register_point
SphereRegisterPoint(s, new_point) ==
    [s EXCEPT !.point_1 = new_point, !.points_registered = @ + 1]

\* SpherePickingStrategy.register_tmp_point
SphereRegisterTmpPoint(s, new_tmp_point) == [s EXCEPT !.tmp_p1 = new_tmp_point]

\* register_scrolling without the floor
SphereRegisterScrollingNoFloor(s, distance) ==
    [s EXCEPT !.sphere_radius = s.sphere_radius + distance]

\* SpherePickingStrategy.register_scrolling: distance / 500.0 is distance units
SphereRegisterScrolling(s, distance) ==
    [s EXCEPT !.sphere_radius = Max(MIN_RADIUS, s.sphere_radius + distance)]

\* SpherePickingStrategy.get_sphere
SphereGetSphere(s) == NewSphere(s.point_1, s.sphere_radius)

\* SpherePickingStrategy.is_bbox_finished
SphereIsFinished(s) == s.points_registered >= SPHERE_POINTS_NEEDED

\* SpherePickingStrategy.reset
SphereReset(s) ==
    [BaseReset(s) EXCEPT !.tmp_p1 = None, !.sphere_radius = STD_SPHERE_RADIUS]

\* PickingStrategy.register_point: the base corner, then the diagonal corner
PickingRegisterPoint(s, new_point) ==
    IF s.points_registered = 0
    THEN [s EXCEPT !.point_1 = new_point, !.points_registered = 1]
    ELSE [s EXCEPT !.point_2 = new_point, !.points_registered = @ + 1]

\* PickingStrategy.register_tmp_point
PickingRegisterTmpPoint(s, new_tmp_point) == [s EXCEPT !.tmp_p1 = new_tmp_point]

\* PickingStrategy.is_bbox_finished
PickingIsFinished(s) == s.points_registered >= PICKING_POINTS_NEEDED

\* the point half way between a and b, and their distance along each axis
Midpoint(a, b) == <<(a[1] + b[1]) \div 2, (a[2] + b[2]) \div 2, (a[3] + b[3]) \div 2>>
Extent(a, b) == <<Max(a[1] - b[1], b[1] - a[1]), Max(a[2] - b[2], b[2] - a[2]),
                  Max(a[3] - b[3], b[3] - a[3])>>

\* BBox(x, y, z, length, width, height): a box with no rotation and no id
NewBbox(center, dimensions) ==
    [center |-> center, dimensions |-> dimensions, rotation |-> 0, id |-> None]

\* PickingStrategy.get_bbox: the box spanned by the two corners
PickingGetBbox(s) ==
    NewBbox(Midpoint(s.point_1, s.point_2), Extent(s.point_1, s.point_2))

\* PickingStrategy.reset
PickingReset(s) ==
    [BaseReset(s) EXCEPT !.point_2 = None, !.tmp_p1 = None]

\* the calls DrawingManager and Controller make on drawing_strategy, by kind
StrategyRegisterPoint(s, p) ==
    IF s.kind = "sphere_picking" THEN SphereRegisterPoint(s, p)
    ELSE PickingRegisterPoint(s, p)

StrategyRegisterTmpPoint(s, p) ==
    IF s.kind = "sphere_picking" THEN SphereRegisterTmpPoint(s, p)
    ELSE PickingRegisterTmpPoint(s, p)

StrategyRegisterScrolling(s, d) ==
    IF s.kind = "sphere_picking" THEN SphereRegisterScrolling(s, d) ELSE s

StrategyIsFinished(s) ==
    IF s.kind = "sphere_picking" THEN SphereIsFinished(s) ELSE PickingIsFinished(s)

StrategyReset(s) ==
    IF s.kind = "sphere_picking" THEN SphereReset(s) ELSE PickingReset(s)

---------------------------------------------------------------------------
(* control/controller.py, control/alignmode.py, control/pcd_manager.py:    *)
(* the values of their state                                               *)

\* selected_side when no side of the active box is under the cursor
NoSide == "none"

\* sides of a box that get_intersected_sides can answer
Sides == {"top", "right"}

\* AlignMode.__init__: not active, no point taken
AlignInit == [is_active |-> FALSE, point |-> None, tmp_point |-> None]

\* the indices of PointCloudManger.pcds
Files == 0..(MaxFiles - 1)

\* a label file that holds no object and no sphere
NoLabels == [objects |-> << >>, spheres |-> << >>]

\* no label file at the path of the point cloud
NoFile == [is_file |-> FALSE]

\* a label file whose text is not JSON
Malformed == [text |-> "{"]

\* a JSON label file without the "objects" key
LacksObjects == [spheres |-> << >>]

\* a JSON label file without the "spheres" key
LacksSpheres == [objects |-> << >>]

---------------------------------------------------------------------------
(* control/bbox_controller.py *)

\* BoundingBoxController.add_bbox on the pair (bboxes, active id)
AddBboxOp(bb, bbox) ==
    [bboxes |-> Append(bb, [bbox EXCEPT !.id = Some(Len(bb))]),
     active |-> Some(Len(bb))]

\* the pair (bboxes, active id) the operations below answer
BboxColl(bb, act) == [bboxes |-> bb, active |-> act]

\* BoundingBoxController.has_active_bbox
HasActiveBbox(bb, act) == act # None /\ Val(act) >= 0 /\ Val(act) < Len(bb)

\* BoundingBoxController.set_bboxes: the list replaces the collection, each
\* box gets its index as id, no box is active
SetBboxesOp(newBboxes) ==
    BboxColl([i \in 1..Len(newBboxes) |-> [newBboxes[i] EXCEPT !.id = Some(i - 1)]],
             None)

\* BoundingBoxController.set_active_bbox: an id out of range clears the
\* active selection
SetActiveBboxOp(bb, bbox_id) ==
    IF 0 <= bbox_id /\ bbox_id < Len(bb) THEN BboxColl(bb, Some(bbox_id))
    ELSE BboxColl(bb, None)

\* BoundingBoxController.deselect_bbox
DeselectBboxOp(bb, act) == BboxColl(bb, None)

\* BoundingBoxController.delete_current_bbox: the active box is removed, the
\* others get their new index as id, the active id is clamped to the last
\* index or cleared
DeleteCurrentBboxOp(bb, act) ==
    IF ~HasActiveBbox(bb, act) THEN BboxColl(bb, act)
    ELSE LET rest == [i \in 1..(Len(bb) - 1) |->
                         [(IF i <= Val(act) THEN bb[i] ELSE bb[i + 1])
                             EXCEPT !.id = Some(i - 1)]]
         IN  BboxColl(rest, IF rest = << >> THEN None
                            ELSE Some(Min(Val(act), Len(rest) - 1)))

\* BoundingBoxController.translate_along_y: the centre of the active box
\* moves by the step along y, the flag choosing the sign
BboxTranslateAlongYOp(bb, act, forward) ==
    IF HasActiveBbox(bb, act)
    THEN BboxColl([bb EXCEPT ![Val(act) + 1].center[2] =
                      @ + (IF forward THEN -STD_TRANSLATION ELSE STD_TRANSLATION)],
                  act)
    ELSE BboxColl(bb, act)

\* the angles a rotation is normalised to, in steps of the model
RotationSteps == 4

\* BoundingBoxController.rotate_with_mouse(x_angle, y_angle): the active box
\* is turned around z by x_angle, the angle normalised
RotateWithMouseOp(bb, act, x_angle, y_angle) ==
    IF HasActiveBbox(bb, act)
    THEN BboxColl([bb EXCEPT ![Val(act) + 1].rotation = (@ + x_angle) % RotationSteps],
                  act)
    ELSE BboxColl(bb, act)

\* BoundingBoxController.set_center
BboxSetCenterOp(bb, act, p) ==
    IF HasActiveBbox(bb, act)
    THEN BboxColl([bb EXCEPT ![Val(act) + 1].center = p], act)
    ELSE BboxColl(bb, act)

\* the axis along which a side of the box looks, and the sign of its normal
SideAxis(side) == IF side = "top" THEN 3 ELSE 1

\* BBox.change_side(side, distance): the dimension across the side changes by
\* distance and the centre moves by half of it along the side's normal; a
\* change that would leave no positive dimension is not made
ChangeSide(b, side, distance) ==
    LET k == SideAxis(side)
    IN  IF b.dimensions[k] + distance <= 0 THEN b
        ELSE [b EXCEPT !.dimensions[k] = @ + distance,
                       !.center[k] = @ + distance \div 2]

---------------------------------------------------------------------------
(* control/alignmode.py *)

\* AlignMode.change_activation: switches the mode on, or off again
AlignChangeActivation(a) ==
    IF a.is_active THEN AlignInit ELSE [AlignInit EXCEPT !.is_active = TRUE]

\* AlignMode.register_point
AlignRegisterPoint(a, p) == [a EXCEPT !.point = p]

\* AlignMode.register_tmp_point
AlignRegisterTmpPoint(a, p) == [a EXCEPT !.tmp_point = p]

\* AlignMode.reset: the gesture is given up and the mode left
AlignReset(a) == AlignInit

---------------------------------------------------------------------------
(* io/labels/centroid.py and control/pcd_manager.py: a label file is the   *)
(* record of its "objects" and "spheres" lists; a file that does not exist *)
(* and a file without the "spheres" key read as empty lists. Class names   *)
(* are not modelled.                                                       *)

\* BaseLabelFormat.round_dec rounds to the export precision of the
\* configuration; the model takes a precision of two decimals, 0.01, the
\* ExportStep of the unit, and rounds to the nearest multiple of it
ExportStep == 5

RoundDec(x) == ExportStep * ((2 * x + ExportStep) \div (2 * ExportStep))

RoundDecAll(v) == [k \in 1..Len(v) |-> RoundDec(v[k])]

\* abs2rel_rotation and rel2abs_rotation: an absolute angle beyond the half
\* turn is stored as a negative one, a negative angle is read as the
\* absolute one, in the steps of RotationSteps
Abs2RelRotation(angle) ==
    IF 2 * angle > RotationSteps THEN angle - RotationSteps ELSE angle

Rel2AbsRotation(angle) == IF angle < 0 THEN angle + RotationSteps ELSE angle

\* the convention of the label format of the point cloud manager
RelativeRotation == TRUE

\* CentroidFormat.export_labels: the "objects" list
ExportBboxes(bb, relative_rotation) ==
    [i \in 1..Len(bb) |->
        [centroid |-> RoundDecAll(bb[i].center),
         dimensions |-> RoundDecAll(bb[i].dimensions),
         rotations |-> IF relative_rotation THEN Abs2RelRotation(bb[i].rotation)
                       ELSE bb[i].rotation]]

\* export_labels writing the objects and never a sphere
ExportLabelsNoSpheres(bb, sp, relative_rotation) ==
    [objects |-> ExportBboxes(bb, relative_rotation), spheres |-> << >>]

\* SphereCentroidFormat.export_labels: the file is written anew with the
\* objects, and the "spheres" list is added if there is a sphere
ExportLabels(bb, sp, relative_rotation) ==
    [objects |-> ExportBboxes(bb, relative_rotation),
     spheres |-> [i \in 1..Len(sp) |-> [center |-> RoundDecAll(sp[i].center),
                                        radius |-> RoundDec(sp[i].radius)]]]

\* label_path.is_file()
IsFile(file) == file # NoFile

\* json.load(read_file) returns the data of the file; it raises otherwise
JsonLoads(file) == "text" \notin DOMAIN file

\* CentroidFormat.import_labels raises: json.load on a text that is not
\* JSON, or data["objects"] on data without the key; nothing catches either
ImportRaises(file) ==
    IsFile(file) /\ (~JsonLoads(file) \/ "objects" \notin DOMAIN file)

\* import_labels reading the rotations as they are stored
ImportBboxesStoredRotation(file, relative_rotation) ==
    IF ~IsFile(file) THEN << >>
    ELSE [i \in 1..Len(file.objects) |->
            [NewBbox(file.objects[i].centroid, file.objects[i].dimensions)
                EXCEPT !.rotation = file.objects[i].rotations]]

\* CentroidFormat.import_labels, of a file on which it does not raise
ImportBboxes(file, relative_rotation) ==
    IF ~IsFile(file) THEN << >>
    ELSE [i \in 1..Len(file.objects) |->
            [NewBbox(file.objects[i].centroid, file.objects[i].dimensions)
                EXCEPT !.rotation = IF relative_rotation
                                    THEN Rel2AbsRotation(file.objects[i].rotations)
                                    ELSE file.objects[i].rotations]]

\* SphereCentroidFormat.import_labels: the sphere list
ImportSpheres(file) ==
    IF IsFile(file) /\ "spheres" \in DOMAIN file
    THEN [i \in 1..Len(file.spheres) |->
             NewSphere(file.spheres[i].center, file.spheres[i].radius)]
    ELSE << >>

\* PointCloudManger.pcds_left
PcdsLeft == current_id + 1 < MaxFiles

\* PointCloudManger.save_labels_into_file(bboxes, spheres): the label file of
\* the current point cloud is written
SaveLabelsIntoFile(bb, sp) ==
    [label_files EXCEPT ![current_id] = ExportLabels(bb, sp, RelativeRotation)]

---------------------------------------------------------------------------
(* control/drawing_manager.py *)

\* DrawingManager.is_active
IsActive == drawing_strategy # None

\* set_primitive_type answering "box" for every strategy
DmPrimitiveTypeAlwaysBox(s) == "box"

\* DrawingManager.set_primitive_type: the value primitive_type gets
DmPrimitiveType(s) == IF s.kind = "sphere_picking" THEN "sphere" ELSE "box"

\* the test of register_point choosing the sphere collection
CommitsSphere(s) == dm_primitive_type = "sphere" /\ s.kind = "sphere_picking"

---------------------------------------------------------------------------
(* The record of the operation that produced a state *)
Op(name, args) ==
    [op |-> name, args |-> args, pre_len |-> Len(spheres),
     pre_active |-> active_sphere_id, pre_strategy |-> None, pre_points |-> 0,
     calls |-> << >>]

\* the same for the operations of the drawing manager, which records the
\* active strategy and its registered points instead of the sphere collection
DrawOp(name, args) ==
    [op |-> name, args |-> args, pre_len |-> 0, pre_active |-> None,
     pre_strategy |-> drawing_strategy,
     pre_points |-> IF drawing_strategy = None THEN 0
                    ELSE strategies[Val(drawing_strategy)].points_registered,
     calls |-> << >>]

\* a call on a collaborator that keeps no state in the model (the camera of
\* the point cloud manager, the widgets of the view)
Call(fn, arg) == [fn |-> fn, arg |-> arg]

\* the same for the handlers of the controller, with the calls they made
CtlOp(name, args, calls) ==
    [op |-> name, args |-> args, pre_len |-> 0, pre_active |-> None,
     pre_strategy |-> None, pre_points |-> 0, calls |-> calls]

\* the collections and the modes as a handler of the keys finds them
Before ==
    [spheres |-> spheres, active_sphere_id |-> active_sphere_id,
     bboxes |-> bboxes, active_bbox_id |-> active_bbox_id,
     primitive_type |-> ctl.primitive_type, drawing_strategy |-> drawing_strategy]

SetColl(c) == /\ spheres' = c.spheres
              /\ active_sphere_id' = c.active

SetBboxColl(c) == /\ bboxes' = c.bboxes
                  /\ active_bbox_id' = c.active

---------------------------------------------------------------------------
(* Actions on the sphere collection *)

\* SphereController.reset
ResetSpheres ==
    /\ spheres' = << >>
    /\ active_sphere_id' = None
    /\ last' = Op("reset", << >>)
    /\ UNCHANGED <<bboxVars, drawVars, ctlVars>>

\* add_sphere(Sphere(center, radius))
AddSphere(center, radius) ==
    /\ Len(spheres) < MaxSpheres
    /\ SetColl(AddSphereOp(spheres, active_sphere_id, NewSphere(center, radius)))
    /\ last' = Op("add_sphere", center \o <<radius>>)
    /\ UNCHANGED <<bboxVars, drawVars, ctlVars>>

\* set_spheres(list of freshly constructed spheres)
SetSpheres(newSpheres) ==
    /\ SetColl(SetSpheresOp(spheres, active_sphere_id, newSpheres))
    /\ last' = Op("set_spheres", <<Len(newSpheres)>>)
    /\ UNCHANGED <<bboxVars, drawVars, ctlVars>>

\* set_active_sphere(sphere_id)
SetActiveSphere(sphere_id) ==
    /\ SetColl(SetActiveSphereOp(spheres, active_sphere_id, sphere_id))
    /\ last' = Op("set_active_sphere", sphere_id)
    /\ UNCHANGED <<bboxVars, drawVars, ctlVars>>

\* select_sphere_by_ray(x, y), the view unprojecting (x, y) to world_pos
SelectSphereByRay(world_pos) ==
    /\ SetColl(SelectSphereByRayOp(spheres, active_sphere_id, world_pos))
    /\ last' = Op("select_sphere_by_ray", world_pos)
    /\ UNCHANGED <<bboxVars, drawVars, ctlVars>>

\* deselect_sphere()
DeselectSphere ==
    /\ SetColl(DeselectSphereOp(spheres, active_sphere_id))
    /\ last' = Op("deselect_sphere", << >>)
    /\ UNCHANGED <<bboxVars, drawVars, ctlVars>>

\* delete_current_sphere()
DeleteCurrentSphere ==
    /\ SetColl(DeleteCurrentSphereOp(spheres, active_sphere_id))
    /\ last' = Op("delete_current_sphere", << >>)
    /\ UNCHANGED <<bboxVars, drawVars, ctlVars>>

\* adjust_radius(increase)
AdjustRadius(increase) ==
    /\ LET c == AdjustRadiusOp(spheres, active_sphere_id, increase)
       IN  /\ \A i \in 1..Len(c.spheres) : c.spheres[i].radius <= MaxRadius
           /\ SetColl(c)
    /\ last' = Op("adjust_radius", <<IF increase THEN 1 ELSE 0>>)
    /\ UNCHANGED <<bboxVars, drawVars, ctlVars>>

\* update_radius(value)
UpdateRadius(value) ==
    /\ SetColl(UpdateRadiusOp(spheres, active_sphere_id, value))
    /\ last' = Op("update_radius", <<value>>)
    /\ UNCHANGED <<bboxVars, drawVars, ctlVars>>

\* spheres[i].change_radius(delta), the Sphere method called on one sphere
SphereChangeRadius(i, delta) ==
    /\ i < Len(spheres)
    /\ ChangeRadius(spheres[i + 1], delta).radius <= MaxRadius
    /\ spheres' = [spheres EXCEPT ![i + 1] = ChangeRadius(@, delta)]
    /\ UNCHANGED active_sphere_id
    /\ last' = Op("change_radius", <<i, delta>>)
    /\ UNCHANGED <<bboxVars, drawVars, ctlVars>>

---------------------------------------------------------------------------
(* Actions on the drawing manager and the active strategy *)

\* reset that clears the points of the strategy and keeps it active
DmResetKeepsStrategy(points_only) ==
    IF drawing_strategy # None
    THEN /\ strategies' = [strategies EXCEPT ![Val(drawing_strategy)] = StrategyReset(@)]
         /\ scrolled' = [scrolled EXCEPT ![Val(drawing_strategy)] = << >>]
         /\ UNCHANGED drawing_strategy
    ELSE UNCHANGED <<strategies, scrolled, drawing_strategy>>

\* DrawingManager.reset without the call of drawing_strategy.reset()
DmResetKeepsPoints(points_only) ==
    IF drawing_strategy # None
    THEN /\ drawing_strategy' = IF points_only THEN drawing_strategy ELSE None
         /\ UNCHANGED <<strategies, scrolled>>
    ELSE UNCHANGED <<strategies, scrolled, drawing_strategy>>

\* DrawingManager.reset, as an update of strategies and drawing_strategy
DmReset(points_only) ==
    IF IsActive
    THEN /\ strategies' = [strategies EXCEPT ![Val(drawing_strategy)] = StrategyReset(@)]
         /\ scrolled' = [scrolled EXCEPT ![Val(drawing_strategy)] = << >>]
         /\ drawing_strategy' = IF points_only THEN drawing_strategy ELSE None
    ELSE UNCHANGED <<strategies, scrolled, drawing_strategy>>

\* DrawingManager.reset(points_only)
DrawingReset(points_only) ==
    /\ DmReset(points_only)
    /\ last' = DrawOp("reset_drawing", <<IF points_only THEN 1 ELSE 0>>)
    /\ UNCHANGED <<sphereVars, bboxVars, dm_primitive_type, ctlVars>>

\* DrawingManager.set_drawing_strategy(strategy): heap and hist are the
\* strategy objects and their scroll histories as the caller built them,
\* o is the object passed
DmSetDrawingStrategy(heap, hist, o) ==
    IF IsActive /\ drawing_strategy = Some(o)
    THEN /\ strategies' = [heap EXCEPT ![o] = StrategyReset(@)]
         /\ scrolled' = [hist EXCEPT ![o] = << >>]
         /\ drawing_strategy' = None
         /\ UNCHANGED dm_primitive_type
    ELSE /\ strategies' = IF IsActive
                          THEN [heap EXCEPT ![Val(drawing_strategy)] = StrategyReset(@)]
                          ELSE heap
         /\ scrolled' = IF IsActive
                        THEN [hist EXCEPT ![Val(drawing_strategy)] = << >>]
                        ELSE hist
         /\ drawing_strategy' = Some(o)
         /\ dm_primitive_type' = DmPrimitiveType(heap[o])

\* set_drawing_strategy(o) with a strategy object o that exists already: the
\* active one, or one that was active before
SetDrawingStrategy(o) ==
    /\ strategies[o].kind # "free"
    /\ DmSetDrawingStrategy(strategies, scrolled, o)
    /\ last' = DrawOp("set_drawing_strategy", <<o>>)
    /\ UNCHANGED <<sphereVars, bboxVars, ctlVars>>

\* set_drawing_strategy(SpherePickingStrategy(view)) and
\* set_drawing_strategy(PickingStrategy(view)): a new object, in a slot that
\* is not the active strategy's
SetNewDrawingStrategy(o, kind) ==
    /\ drawing_strategy # Some(o)
    /\ DmSetDrawingStrategy([strategies EXCEPT ![o] = NewStrategy(kind)],
                            [scrolled EXCEPT ![o] = << >>], o)
    /\ last' = DrawOp("set_drawing_strategy", <<o>>)
    /\ UNCHANGED <<sphereVars, bboxVars, ctlVars>>

\* DrawingManager.register_point(x, y, is_temporary), the view unprojecting
\* (x, y) to world_point, as an update of the collections and the strategies
DmRegisterPoint(world_point, is_temporary) ==
    IF ~IsActive
    THEN UNCHANGED <<sphereVars, bboxVars, drawVars>>
    ELSE LET o == Val(drawing_strategy)
         IN  IF is_temporary
             THEN /\ strategies' = [strategies EXCEPT ![o] =
                                       StrategyRegisterTmpPoint(@, world_point)]
                  /\ UNCHANGED <<sphereVars, bboxVars, drawing_strategy,
                                 dm_primitive_type, scrolled>>
             ELSE LET s == StrategyRegisterPoint(strategies[o], world_point)
                  IN  IF StrategyIsFinished(s)
                      THEN /\ IF CommitsSphere(s)
                              THEN /\ Len(spheres) < MaxDrawn
                                   /\ SetColl(AddSphereOp(spheres, active_sphere_id,
                                                          SphereGetSphere(s)))
                                   /\ UNCHANGED bboxVars
                              ELSE /\ Len(bboxes) < MaxDrawn
                                   /\ s.kind = "picking"
                                   /\ LET c == AddBboxOp(bboxes, PickingGetBbox(s))
                                      IN  /\ bboxes' = c.bboxes
                                          /\ active_bbox_id' = c.active
                                   /\ UNCHANGED sphereVars
                           /\ strategies' = [strategies EXCEPT ![o] = StrategyReset(s)]
                           /\ scrolled' = [scrolled EXCEPT ![o] = << >>]
                           /\ drawing_strategy' = None
                           /\ UNCHANGED dm_primitive_type
                      ELSE /\ strategies' = [strategies EXCEPT ![o] = s]
                           /\ UNCHANGED <<sphereVars, bboxVars, drawing_strategy,
                                          dm_primitive_type, scrolled>>

\* register_point(x, y, is_temporary) called on the drawing manager
RegisterPoint(world_point, is_temporary) ==
    /\ last' = DrawOp(IF is_temporary THEN "register_tmp_point" ELSE "register_point",
                      world_point)
    /\ DmRegisterPoint(world_point, is_temporary)
    /\ UNCHANGED ctlVars

\* drawing_strategy.register_scrolling(distance), as mouse_scroll_event calls it
RegisterScrolling(distance) ==
    /\ IsActive
    /\ Len(scrolled[Val(drawing_strategy)]) < MaxScrolls
    /\ strategies' = [strategies EXCEPT ![Val(drawing_strategy)] =
                         StrategyRegisterScrolling(@, distance)]
    /\ scrolled' = [scrolled EXCEPT ![Val(drawing_strategy)] = Append(@, distance)]
    /\ last' = DrawOp("register_scrolling", <<distance>>)
    /\ UNCHANGED <<sphereVars, bboxVars, drawing_strategy, dm_primitive_type, ctlVars>>

\* BoundingBoxController.reset
ResetBboxes ==
    /\ bboxes' = << >>
    /\ active_bbox_id' = None
    /\ last' = DrawOp("reset_bboxes", << >>)
    /\ UNCHANGED <<sphereVars, drawVars, ctlVars>>

\* bbox_controller.add_bbox(BBox(...))
AddBbox(center, dimensions) ==
    /\ Len(bboxes) < MaxDrawn
    /\ SetBboxColl(AddBboxOp(bboxes, NewBbox(center, dimensions)))
    /\ last' = DrawOp("add_bbox", center)
    /\ UNCHANGED <<sphereVars, drawVars, ctlVars>>

\* bbox_controller.rotate_with_mouse(x_angle, y_angle)
RotateWithMouse(x_angle, y_angle) ==
    /\ SetBboxColl(RotateWithMouseOp(bboxes, active_bbox_id, x_angle, y_angle))
    /\ last' = CtlOp("rotate_with_mouse", <<x_angle, y_angle>>, << >>)
    /\ UNCHANGED <<sphereVars, drawVars, ctlVars>>

---------------------------------------------------------------------------
(* The label format on the label file of a point cloud *)

\* SphereCentroidFormat.export_labels(bboxes, pcd_path, spheres) of a format
\* object with the given rotation convention
ExportLabelsTo(pcd, relative_rotation) ==
    /\ label_files' = [label_files EXCEPT ![pcd] =
                          ExportLabels(bboxes, spheres, relative_rotation)]
    /\ last' = CtlOp("export_labels",
                     [pcd |-> pcd, relative_rotation |-> relative_rotation], << >>)
    /\ UNCHANGED <<sphereVars, bboxVars, drawVars, ctl, align, current_id>>

\* SphereCentroidFormat.import_labels(pcd_path): the record of the operation
\* keeps the lists it returns, or that it raised and returned none; the
\* boxes are read first, by CentroidFormat.import_labels
ImportLabelsFrom(pcd, relative_rotation) ==
    /\ last' = CtlOp("import_labels",
                     IF ImportRaises(label_files[pcd])
                     THEN [pcd |-> pcd, relative_rotation |-> relative_rotation,
                           raised |-> TRUE, bboxes |-> << >>, spheres |-> << >>]
                     ELSE [pcd |-> pcd, relative_rotation |-> relative_rotation,
                           raised |-> FALSE,
                           bboxes |-> ImportBboxes(label_files[pcd], relative_rotation),
                           spheres |-> ImportSpheres(label_files[pcd])], << >>)
    /\ UNCHANGED <<sphereVars, bboxVars, drawVars, ctlVars>>

\* the label file of a point cloud as another program leaves it: removed,
\* cut short, or written without one of the two lists
LabelFileLeft(pcd, content) ==
    /\ label_files' = [label_files EXCEPT ![pcd] = content]
    /\ last' = CtlOp("label_file_left", [pcd |-> pcd], << >>)
    /\ UNCHANGED <<sphereVars, bboxVars, drawVars, ctl, align, current_id>>

---------------------------------------------------------------------------
(* view/viewer.py *)

\* the order in which paintGL draws the boxes: the active one first,
\* highlighted, then the others as bbox_controller.bboxes lists them
BoxDrawOrder(bb, act) ==
    LET others == SelectSeq([i \in 1..Len(bb) |-> i],
                            LAMBDA i : ~(HasActiveBbox(bb, act) /\ i = Val(act) + 1))
    IN  IF HasActiveBbox(bb, act) THEN <<Val(act) + 1>> \o others ELSE others

\* the boxes drawn before the first draw_bbox that raises, which takes
\* paintGL to its outer except clause
DrawBoxes(order, bad_boxes) ==
    LET raising == {k \in 1..Len(order) : order[k] \in bad_boxes}
        first == CHOOSE k \in raising : \A j \in raising : k <= j
    IN  IF raising = {}
        THEN [drawn |-> {order[k] : k \in 1..Len(order)}, raised |-> FALSE]
        ELSE [drawn |-> {order[k] : k \in 1..(first - 1)}, raised |-> TRUE]

\* GLWidget.paintGL on collections of which the boxes bad_boxes and the
\* spheres bad_spheres raise when drawn: the primitives drawn, the errors
\* logged and the matrices left on the modelview stack
PaintGLOp(bb, act, sp, bad_boxes, bad_spheres) ==
    LET pushed == 1
        boxes == DrawBoxes(BoxDrawOrder(bb, act), bad_boxes)
        \* Sphere.draw pops in its finally clause the matrix it pushed
        drawn_spheres == IF boxes.raised THEN {}
                         ELSE {i \in 1..Len(sp) : i \notin bad_spheres}
        logged == IF boxes.raised THEN 1
                  ELSE Cardinality({i \in 1..Len(sp) : i \in bad_spheres})
    IN  [drawn_boxes |-> boxes.drawn, drawn_spheres |-> drawn_spheres,
         logged |-> logged, matrix_stack |-> pushed - 1]

\* GLWidget.paintGL
PaintGL(bad_boxes, bad_spheres) ==
    /\ last' = CtlOp("paintGL",
                     [bad_boxes |-> bad_boxes, bad_spheres |-> bad_spheres,
                      frame |-> PaintGLOp(bboxes, active_bbox_id, spheres,
                                          bad_boxes, bad_spheres)], << >>)
    /\ UNCHANGED <<sphereVars, bboxVars, drawVars, ctlVars>>

---------------------------------------------------------------------------
(* Controller: navigation between the point clouds *)

\* Controller.reset followed by set_bboxes(get_labels_from_file()), with the
\* pointer at new_id and the label files as they are by then; propagate and
\* activate are the two steps only some of the callers take
ResetAndLoad(files, new_id, propagate, activate) ==
    /\ current_id' = new_id
    /\ label_files' = files
    /\ spheres' = << >>
    /\ active_sphere_id' = None
    /\ DmReset(FALSE)
    /\ UNCHANGED dm_primitive_type
    /\ align' = AlignReset(align)
    /\ LET loaded == SetBboxesOp(ImportBboxes(files[new_id], RelativeRotation))
           seeded == IF loaded.bboxes = << >> /\ propagate
                     THEN SetBboxesOp(bboxes) ELSE loaded
       IN  SetBboxColl(IF activate THEN SetActiveBboxOp(seeded.bboxes, 0) ELSE seeded)
    /\ UNCHANGED ctl

\* staying on the file, but with the sphere collection reset
StayOnFileSpheresReset(files) ==
    /\ label_files' = files
    /\ spheres' = << >>
    /\ active_sphere_id' = None
    /\ UNCHANGED <<bboxVars, drawVars, ctl, align, current_id>>

\* what the navigation handlers leave alone when they do not move
StayOnFile(files) ==
    /\ label_files' = files
    /\ UNCHANGED <<sphereVars, bboxVars, drawVars, ctl, align, current_id>>

\* Controller.next_pcd(save), propagate_labels being the value the
\* configuration has at the call
NextPcd(save, propagate_labels) ==
    /\ save => current_id \in Files
    /\ LET files == IF save THEN SaveLabelsIntoFile(bboxes, spheres) ELSE label_files
           args == [save |-> save, propagate_labels |-> propagate_labels,
                    from |-> current_id, moved |-> PcdsLeft]
       IN  IF PcdsLeft
           THEN /\ ResetAndLoad(files, current_id + 1, propagate_labels, TRUE)
                /\ last' = CtlOp("next_pcd", args, << >>)
           ELSE /\ StayOnFile(files)
                /\ last' = CtlOp("next_pcd", args,
                                 <<Call("update_progress", MaxFiles),
                                   Call("button_next_pcd.setEnabled", 0)>>)

\* Controller.prev_pcd; propagate_labels, the value the configuration has at
\* the call, is not read and only recorded
PrevPcd(propagate_labels) ==
    /\ current_id \in Files
    /\ LET files == SaveLabelsIntoFile(bboxes, spheres)
           args == [save |-> TRUE, propagate_labels |-> propagate_labels,
                    from |-> current_id, moved |-> current_id > 0]
       IN  /\ IF current_id > 0
              THEN ResetAndLoad(files, current_id - 1, FALSE, TRUE)
              ELSE StayOnFile(files)
           /\ last' = CtlOp("prev_pcd", args, << >>)

\* Controller.custom_pcd(custom); propagate_labels is not read and only
\* recorded
CustomPcd(custom, propagate_labels) ==
    /\ current_id \in Files
    /\ LET files == SaveLabelsIntoFile(bboxes, spheres)
           args == [save |-> TRUE, propagate_labels |-> propagate_labels,
                    from |-> current_id, moved |-> TRUE]
       IN  /\ ResetAndLoad(files, custom, FALSE, FALSE)
           /\ last' = CtlOp("custom_pcd", args, << >>)

---------------------------------------------------------------------------
(* Controller: the drawing strategy, the keys, the side under the cursor *)

\* set_primitive_type answering "sphere" for every strategy
CtlPrimitiveTypeAlwaysSphere(s) == "sphere"

\* set_primitive_type without the test of the strategy's class
CtlPrimitiveTypeAlwaysBox(s) == "box"

\* Controller.set_primitive_type: the value primitive_type gets
CtlPrimitiveType(s) == IF s.kind = "sphere_picking" THEN "sphere" ELSE "box"

\* Controller.set_drawing_strategy(strategy) with a new strategy object of
\* the given kind in slot o, as an update of the drawing manager and of ctl
CtlSetNewStrategy(o, kind) ==
    /\ DmSetDrawingStrategy([strategies EXCEPT ![o] = NewStrategy(kind)],
                            [scrolled EXCEPT ![o] = << >>], o)
    /\ ctl' = [ctl EXCEPT !.primitive_type = CtlPrimitiveType(NewStrategy(kind))]

\* Controller.set_drawing_strategy(strategy) with a strategy object that
\* exists already: the active one, which the drawing manager then
\* deactivates, or one that was active before
CtlSetExistingStrategy(o) ==
    /\ strategies[o].kind # "free"
    /\ DmSetDrawingStrategy(strategies, scrolled, o)
    /\ ctl' = [ctl EXCEPT !.primitive_type = CtlPrimitiveType(strategies[o])]
    /\ last' = CtlOp("ctl_set_existing_strategy", <<o>>, << >>)
    /\ UNCHANGED <<sphereVars, bboxVars, align, pcdVars>>

\* Controller.set_drawing_strategy(SpherePickingStrategy(view)) and
\* Controller.set_drawing_strategy(PickingStrategy(view))
CtlSetDrawingStrategy(o, kind) ==
    /\ drawing_strategy # Some(o)
    /\ CtlSetNewStrategy(o, kind)
    /\ last' = CtlOp("ctl_set_drawing_strategy", <<o>>, << >>)
    /\ UNCHANGED <<sphereVars, bboxVars, align, pcdVars>>

\* AlignMode.change_activation, called by the view's button
ChangeActivation ==
    /\ align' = AlignChangeActivation(align)
    /\ last' = CtlOp("change_activation", << >>, << >>)
    /\ UNCHANGED <<sphereVars, bboxVars, drawVars, ctl, pcdVars>>

\* the test of set_selected_side without the one of scroll_mode
SideFollowsCursorInScrollMode ==
    /\ ~ctl.side_mode
    /\ ctl.curr_cursor_pos # None
    /\ HasActiveBbox(bboxes, active_bbox_id)

\* the test of set_selected_side without the one of side_mode
SideFollowsCursorInSideMode ==
    /\ ctl.curr_cursor_pos # None
    /\ HasActiveBbox(bboxes, active_bbox_id)
    /\ ~ctl.scroll_mode

\* the test of set_selected_side: the side under the cursor is looked up
SideFollowsCursor ==
    /\ ~ctl.side_mode
    /\ ctl.curr_cursor_pos # None
    /\ HasActiveBbox(bboxes, active_bbox_id)
    /\ ~ctl.scroll_mode

\* Controller.set_selected_side, called in each iteration of the event loop;
\* side is the answer of get_intersected_sides
SetSelectedSide(side) ==
    /\ ctl' = IF SideFollowsCursor THEN [ctl EXCEPT !.selected_side = side] ELSE ctl
    /\ last' = CtlOp("set_selected_side", <<side>>, << >>)
    /\ UNCHANGED <<sphereVars, bboxVars, drawVars, align, pcdVars>>

\* Controller.select_relative_bbox(step), with an active box
SelectRelativeBboxOp(bb, act, step) ==
    LET max_id == Len(bb) - 1
        new_id == Val(act) + step
        corner_case_id == IF step > 0 THEN 0 ELSE max_id
    IN  SetActiveBboxOp(bb, IF 0 <= new_id /\ new_id <= max_id THEN new_id
                            ELSE corner_case_id)

\* select_relative_sphere stopping at the ends of the list
SelectRelativeSphereClamped(sp, act, step) ==
    IF sp = << >> THEN Coll(sp, act)
    ELSE LET max_id == Len(sp) - 1
             new_id == IF act = None THEN 0
                       ELSE IF Val(act) + step < 0 THEN 0
                       ELSE IF Val(act) + step > max_id THEN max_id
                       ELSE Val(act) + step
         IN  SetActiveSphereOp(sp, act, Some(new_id))

\* Controller.select_relative_sphere(step)
SelectRelativeSphereOp(sp, act, step) ==
    IF sp = << >> THEN Coll(sp, act)
    ELSE LET max_id == Len(sp) - 1
             new_id == IF act = None THEN 0
                       ELSE IF Val(act) + step < 0 THEN max_id
                       ELSE IF Val(act) + step > max_id THEN 0
                       ELSE Val(act) + step
         IN  SetActiveSphereOp(sp, act, Some(new_id))

\* the test of the sphere branch of Key_Delete without the primitive type
DeletesSphereInAnyMode == HasActiveSphere(spheres, active_sphere_id)

\* key_press_event: the test of the sphere branch of Key_Delete
DeletesSphere ==
    ctl.primitive_type = "sphere" /\ HasActiveSphere(spheres, active_sphere_id)

\* the keys of the bank of key_press_event taken as inputs
BankKeys == {"Key_W", "Key_Plus", "Key_G", "Key_1"}

\* key_press_event: the keys of the sphere, the branch written inside the
\* chain of the keys of the box
SphereKeys(key) ==
    IF key = "Key_W" THEN TranslateAlongYOp(spheres, active_sphere_id, FALSE)
    ELSE IF key = "Key_Plus" THEN AdjustRadiusOp(spheres, active_sphere_id, TRUE)
    ELSE IF key = "Key_G" THEN SelectRelativeSphereOp(spheres, active_sphere_id, 1)
    ELSE IF key = "Key_1" /\ 0 < Len(spheres)
    THEN SetActiveSphereOp(spheres, active_sphere_id, Some(0))
    ELSE Coll(spheres, active_sphere_id)

\* key_press_event: the bank of keys, reached when the key is none of the
\* keys tested before it
KeyBank(key) ==
    IF ctl.primitive_type = "box" /\ HasActiveBbox(bboxes, active_bbox_id)
    THEN IF key = "Key_W"
         THEN /\ SetBboxColl(BboxTranslateAlongYOp(bboxes, active_bbox_id, FALSE))
              /\ UNCHANGED sphereVars
         ELSE IF key = "Key_G"
         THEN /\ SetBboxColl(SelectRelativeBboxOp(bboxes, active_bbox_id, 1))
              /\ UNCHANGED sphereVars
         ELSE IF key = "Key_1"
         THEN /\ SetBboxColl(SetActiveBboxOp(bboxes, 0))
              /\ UNCHANGED sphereVars
         ELSE IF /\ ctl.primitive_type = "sphere"
                 /\ HasActiveSphere(spheres, active_sphere_id)
         THEN /\ SetColl(SphereKeys(key))
              /\ UNCHANGED bboxVars
         ELSE UNCHANGED <<sphereVars, bboxVars>>
    ELSE UNCHANGED <<sphereVars, bboxVars>>

\* Controller.key_press_event(key), for the keys Key_Control, Key_Delete,
\* Key_Escape and Key_M and the keys of the bank
KeyPressEvent(key) ==
    /\ last' = CtlOp("key_press_event", [key |-> key, before |-> Before], << >>)
    /\ UNCHANGED pcdVars
    /\ IF key = "Key_Control"
       THEN /\ ctl' = [ctl EXCEPT !.ctrl_pressed = TRUE]
            /\ UNCHANGED <<sphereVars, bboxVars, drawVars, align>>
       ELSE IF key = "Key_Delete"
       THEN /\ IF DeletesSphere
               THEN /\ SetColl(DeleteCurrentSphereOp(spheres, active_sphere_id))
                    /\ UNCHANGED bboxVars
               ELSE IF ctl.primitive_type = "box"
               THEN /\ SetBboxColl(DeleteCurrentBboxOp(bboxes, active_bbox_id))
                    /\ UNCHANGED sphereVars
               ELSE UNCHANGED <<sphereVars, bboxVars>>
            /\ UNCHANGED <<drawVars, ctl, align>>
       ELSE IF key = "Key_Escape"
       THEN /\ IF IsActive
               THEN /\ DmReset(FALSE)
                    /\ UNCHANGED <<dm_primitive_type, align>>
               ELSE IF align.is_active
               THEN /\ align' = AlignReset(align)
                    /\ UNCHANGED drawVars
               ELSE UNCHANGED <<drawVars, align>>
            /\ UNCHANGED <<sphereVars, bboxVars, ctl>>
       ELSE IF key = "Key_M"
       THEN /\ \E o \in StrategyObjs :
                  /\ drawing_strategy # Some(o)
                  /\ CtlSetNewStrategy(o, IF ctl.primitive_type # "sphere"
                                          THEN "sphere_picking" ELSE "picking")
            /\ UNCHANGED <<sphereVars, bboxVars, align>>
       ELSE /\ key \in BankKeys
            /\ KeyBank(key)
            /\ UNCHANGED <<drawVars, ctl, align>>

\* Controller.select_relative_sphere(step), as the buttons of the view call it
SelectRelativeSphere(step) ==
    /\ last' = CtlOp("select_relative_sphere", [step |-> step, before |-> Before], << >>)
    /\ IF step = 0 THEN UNCHANGED sphereVars
       ELSE SetColl(SelectRelativeSphereOp(spheres, active_sphere_id, step))
    /\ UNCHANGED <<bboxVars, drawVars, ctlVars>>

\* Controller.select_relative_bbox(step) with an active box, as its callers
\* have it
SelectRelativeBbox(step) ==
    /\ HasActiveBbox(bboxes, active_bbox_id)
    /\ last' = CtlOp("select_relative_bbox", [step |-> step, before |-> Before], << >>)
    /\ IF step = 0 THEN UNCHANGED bboxVars
       ELSE SetBboxColl(SelectRelativeBboxOp(bboxes, active_bbox_id, step))
    /\ UNCHANGED <<sphereVars, drawVars, ctlVars>>

\* Controller.handle_delete_button_clicked
HandleDeleteButtonClicked ==
    /\ last' = CtlOp("handle_delete_button_clicked", [before |-> Before], << >>)
    /\ IF ctl.primitive_type = "sphere" /\ HasActiveSphere(spheres, active_sphere_id)
       THEN /\ SetColl(DeleteCurrentSphereOp(spheres, active_sphere_id))
            /\ UNCHANGED bboxVars
       ELSE /\ SetBboxColl(DeleteCurrentBboxOp(bboxes, active_bbox_id))
            /\ UNCHANGED sphereVars
    /\ UNCHANGED <<drawVars, ctlVars>>

\* Controller.key_release_event(key)
KeyReleaseEvent(key) ==
    /\ ctl' = IF key = "Key_Control" THEN [ctl EXCEPT !.ctrl_pressed = FALSE] ELSE ctl
    /\ last' = CtlOp("key_release_event", <<key>>, << >>)
    /\ UNCHANGED <<sphereVars, bboxVars, drawVars, align, pcdVars>>

---------------------------------------------------------------------------
(* Controller: the mouse. A position is a pair of pixels; the relative     *)
(* movements dx and dy are kept times 5, as differences of pixels.         *)

\* Controller.MOVEMENT_THRESHOLD, in tenths
MOVEMENT_THRESHOLD == 1

\* the divisor of the relative movement in mouse_move_event
SMOOTHING == 5

\* d / 5 > MOVEMENT_THRESHOLD, for a difference d of pixels
ExceedsThreshold(d) == 10 * d > SMOOTHING * MOVEMENT_THRESHOLD

\* the tests of mouse_clicked without the test of the button
ClickDrawsAnyButton(buttons) == IsActive /\ ~ctl.ctrl_pressed

\* the first two tests of mouse_clicked: a committing point is registered
ClickDraws(buttons) ==
    \/ /\ ctl.primitive_type = "sphere"
       /\ IsActive /\ buttons = "left" /\ ~ctl.ctrl_pressed
    \/ /\ ctl.primitive_type = "box"
       /\ IsActive /\ buttons = "left" /\ ~ctl.ctrl_pressed

\* Controller.mouse_clicked(a0), the view unprojecting a0.pos() to world
MouseClicked(pos, buttons, world) ==
    /\ last' = CtlOp("mouse_clicked", [buttons |-> buttons, world |-> world], << >>)
    /\ UNCHANGED pcdVars
    /\ IF ClickDraws(buttons)
       THEN /\ DmRegisterPoint(world, FALSE)
            /\ ctl' = [ctl EXCEPT !.last_cursor_pos = Some(pos)]
            /\ UNCHANGED align
       ELSE IF align.is_active /\ ~ctl.ctrl_pressed
       THEN /\ align' = AlignRegisterPoint(align, world)
            /\ ctl' = [ctl EXCEPT !.last_cursor_pos = Some(pos)]
            /\ UNCHANGED <<sphereVars, bboxVars, drawVars>>
       ELSE IF ctl.selected_side # NoSide
       THEN /\ ctl' = [ctl EXCEPT !.last_cursor_pos = Some(pos), !.side_mode = TRUE]
            /\ UNCHANGED <<sphereVars, bboxVars, drawVars, align>>
       ELSE /\ ctl' = [ctl EXCEPT !.last_cursor_pos = Some(pos)]
            /\ UNCHANGED <<sphereVars, bboxVars, drawVars, align>>

\* the preview test without the test of ctrl
MovePreviewsWithCtrl == IsActive

\* the test of mouse_move_event for registering a preview point
MovePreviews == IsActive /\ ~ctl.ctrl_pressed

\* the test for moving the active primitive without the tests of the modes
ManipulatesInAnyMode == ctl.ctrl_pressed

\* the test of mouse_move_event for moving the active primitive
Manipulates == ctl.ctrl_pressed /\ ~IsActive /\ ~align.is_active

\* the calls on the camera a drag makes when it moves no primitive
CameraCalls(buttons, dx, dy) ==
    IF buttons = "left"
    THEN <<Call("rotate_around_x", dy), Call("rotate_around_z", dx)>>
    ELSE IF buttons = "right"
    THEN <<Call("translate_along_x", dx), Call("translate_along_y", dy)>>
    ELSE << >>

\* the release of the locks at the end of mouse_move_event
ReleaseLocks(c, dx, dy) ==
    IF ExceedsThreshold(dx) \/ ExceedsThreshold(dy)
    THEN IF c.side_mode THEN [c EXCEPT !.side_mode = FALSE]
         ELSE [c EXCEPT !.scroll_mode = FALSE]
    ELSE c

\* Controller.mouse_move_event(a0), the view unprojecting a0.pos() to world
\* the position of the last click, as long as nothing but pointer moves
\* has followed it
ClickBefore ==
    IF last.op = "mouse_clicked" THEN ctl.last_cursor_pos
    ELSE IF last.op = "mouse_move_event" THEN last.args.click
    ELSE None

MouseMoveEvent(pos, buttons, world) ==
    LET moved == ctl.last_cursor_pos # None
        dx == IF moved THEN Val(ctl.last_cursor_pos)[1] - pos[1] ELSE 0
        dy == IF moved THEN Val(ctl.last_cursor_pos)[2] - pos[2] ELSE 0
        drags == moved /\ Manipulates
        c1 == [ctl EXCEPT !.curr_cursor_pos = Some(pos)]
        c2 == IF moved THEN ReleaseLocks(c1, dx, dy) ELSE c1
    IN  /\ ctl' = [c2 EXCEPT !.last_cursor_pos = Some(pos)]
        /\ last' = CtlOp("mouse_move_event",
                         [buttons |-> buttons, world |-> world, dx |-> dx, dy |-> dy,
                          click |-> ClickBefore],
                         IF moved /\ ~Manipulates THEN CameraCalls(buttons, dx, dy)
                         ELSE << >>)
        /\ UNCHANGED pcdVars
        /\ IF MovePreviews
           THEN /\ DmRegisterPoint(world, TRUE)
                /\ UNCHANGED align
           ELSE /\ align' = IF align.is_active /\ ~ctl.ctrl_pressed
                             THEN AlignRegisterTmpPoint(align, world) ELSE align
                /\ UNCHANGED drawVars
                /\ IF drags /\ buttons = "left"
                   THEN /\ SetBboxColl(IF /\ ctl.primitive_type = "box"
                                          /\ HasActiveBbox(bboxes, active_bbox_id)
                                       THEN RotateWithMouseOp(bboxes, active_bbox_id,
                                                              -dx, -dy)
                                       ELSE BboxColl(bboxes, active_bbox_id))
                        /\ UNCHANGED sphereVars
                   ELSE IF drags /\ buttons = "right"
                   THEN IF /\ ctl.primitive_type = "box"
                           /\ HasActiveBbox(bboxes, active_bbox_id)
                        THEN /\ SetBboxColl(BboxSetCenterOp(bboxes, active_bbox_id, world))
                             /\ UNCHANGED sphereVars
                        ELSE IF /\ ctl.primitive_type = "sphere"
                                /\ HasActiveSphere(spheres, active_sphere_id)
                        THEN /\ SetColl(SetCenterOp(spheres, active_sphere_id, world))
                             /\ UNCHANGED bboxVars
                        ELSE UNCHANGED <<sphereVars, bboxVars>>
                   ELSE UNCHANGED <<sphereVars, bboxVars>>

\* Controller.cursor_near_sphere(sphere), the view unprojecting the current
\* cursor position to world
CursorNearSphere(sphere, world) ==
    /\ ctl.curr_cursor_pos # None
    /\ WithinReach(Dist2(sphere.center, world), sphere.radius)

\* the test of the first branch of mouse_scroll_event with ctrl held
ScrollForwardsWithCtrl == IsActive /\ ctl.ctrl_pressed

\* the test of the first branch of mouse_scroll_event: the wheel goes to
\* the drawing strategy
ScrollForwards == IsActive /\ ~ctl.ctrl_pressed

\* the test of the radius branch of mouse_scroll_event without scroll_mode
ScrollAdjustsIgnoringLock(world) ==
    /\ ctl.primitive_type = "sphere"
    /\ HasActiveSphere(spheres, active_sphere_id)
    /\ CursorNearSphere(spheres[Val(active_sphere_id) + 1], world)

\* the test of the radius branch of mouse_scroll_event
ScrollAdjusts(world) ==
    /\ ctl.primitive_type = "sphere"
    /\ HasActiveSphere(spheres, active_sphere_id)
    /\ ~ctl.scroll_mode
    /\ CursorNearSphere(spheres[Val(active_sphere_id) + 1], world)

\* Controller.mouse_scroll_event(a0) with a0.angleDelta().y() = delta;
\* -delta / 4000 is -delta / 8 in the unit of the model
MouseScrollEvent(delta, world) ==
    LET c1 == IF ctl.selected_side # NoSide THEN [ctl EXCEPT !.side_mode = TRUE] ELSE ctl
        zoom == <<Call("zoom_into", delta)>>
        args == [delta |-> delta, world |-> world]
    IN  /\ UNCHANGED <<align, pcdVars>>
        /\ IF ScrollForwards
           THEN /\ Len(scrolled[Val(drawing_strategy)]) < MaxScrolls
                /\ strategies' = [strategies EXCEPT ![Val(drawing_strategy)] =
                                     StrategyRegisterScrolling(@, delta)]
                /\ scrolled' = [scrolled EXCEPT ![Val(drawing_strategy)] =
                                   Append(@, delta)]
                /\ ctl' = c1
                /\ last' = CtlOp("mouse_scroll_event", args, << >>)
                /\ UNCHANGED <<sphereVars, bboxVars, drawing_strategy, dm_primitive_type>>
           ELSE IF c1.side_mode /\ HasActiveBbox(bboxes, active_bbox_id)
           THEN /\ IF c1.selected_side \in Sides
                   THEN LET b == ChangeSide(bboxes[Val(active_bbox_id) + 1],
                                            c1.selected_side, (-delta) \div 8)
                        IN  /\ \A k \in 1..3 : b.dimensions[k] <= MaxDimension
                            /\ bboxes' = [bboxes EXCEPT ![Val(active_bbox_id) + 1] = b]
                   ELSE UNCHANGED bboxes
                /\ ctl' = c1
                /\ last' = CtlOp("mouse_scroll_event", args, << >>)
                /\ UNCHANGED <<sphereVars, active_bbox_id, drawVars>>
           ELSE IF ScrollAdjusts(world)
           THEN /\ LET c == AdjustRadiusOp(spheres, active_sphere_id, delta > 0)
                   IN  /\ \A i \in 1..Len(c.spheres) :
                              c.spheres[i].radius
                                  <= STD_SPHERE_RADIUS + MaxScrolls * STD_SPHERE_SCALING
                       /\ SetColl(c)
                /\ ctl' = c1
                /\ last' = CtlOp("mouse_scroll_event", args, << >>)
                /\ UNCHANGED <<bboxVars, drawVars>>
           ELSE /\ ctl' = [c1 EXCEPT !.scroll_mode = TRUE]
                /\ last' = CtlOp("mouse_scroll_event", args, zoom)
                /\ UNCHANGED <<sphereVars, bboxVars, drawVars>>

---------------------------------------------------------------------------
(* Inputs *)

\* radii given to Sphere(...) in the collection specifications
SphereRadii == {STD_SPHERE_RADIUS, 100}

\* label lists as import_labels builds them: Sphere(center, radius, name) each
ImportedSpheres ==
    UNION {[1..n -> {NewSphere(P0, STD_SPHERE_RADIUS), NewSphere(P1, 100)}]
            : n \in 0..MaxImport}

\* arguments of set_active_sphere: None and integers around the valid range
SphereIds == {None} \cup {Some(i) : i \in -1..(MaxSpheres + 1)}

\* radii given to Sphere(...) and update_radius in the radius specification
RadiusInputs == {-15, 0, 4, 5, 6, 20}

\* deltas given to change_radius in the radius specification
RadiusDeltas == {-100, -7, 1, 15}

\* world points the view returns in the drawing specification
DrawPoints == {P0, P1}

\* wheel deltas (angleDelta) in the drawing specification
ScrollDeltas == {-300, 120}

StrategyKinds == {"sphere_picking", "picking"}

Init ==
    /\ spheres = << >>
    /\ active_sphere_id = None
    /\ bboxes = << >>
    /\ active_bbox_id = None
    /\ strategies = [o \in StrategyObjs |-> FreeSlot]
    /\ drawing_strategy = None
    /\ dm_primitive_type = "box"
    /\ scrolled = [o \in StrategyObjs |-> << >>]
    /\ ctl = [curr_cursor_pos |-> None, last_cursor_pos |-> None,
              ctrl_pressed |-> FALSE, scroll_mode |-> FALSE, side_mode |-> FALSE,
              selected_side |-> NoSide, primitive_type |-> "box"]
    /\ align = AlignInit
    /\ current_id = -1
    /\ label_files = [f \in Files |-> NoLabels]
    /\ last = [op |-> "init", args |-> << >>, pre_len |-> 0, pre_active |-> None,
               pre_strategy |-> None, pre_points |-> 0, calls |-> << >>]

\* the sphere collection without label import
NextColl ==
    \/ ResetSpheres
    \/ \E c \in Points, r \in SphereRadii : AddSphere(c, r)
    \/ \E i \in SphereIds : SetActiveSphere(i)
    \/ \E w \in Points : SelectSphereByRay(w)
    \/ DeselectSphere
    \/ DeleteCurrentSphere

\* the sphere collection
Next ==
    \/ NextColl
    \/ \E l \in ImportedSpheres : SetSpheres(l)

\* the radius operations, on a collection of at most MaxRadiusSpheres spheres
NextRadius ==
    \/ \E r \in RadiusInputs : Len(spheres) < MaxRadiusSpheres /\ AddSphere(P0, r)
    \/ \E b \in BOOLEAN : AdjustRadius(b)
    \/ \E v \in RadiusInputs : UpdateRadius(v)
    \/ \E i \in 0..(MaxRadiusSpheres - 1), d \in RadiusDeltas : SphereChangeRadius(i, d)
    \/ \E i \in SphereIds : SetActiveSphere(i)
    \/ DeleteCurrentSphere

\* the drawing manager, its strategies and the collections it commits to
NextDraw ==
    \/ \E o \in StrategyObjs : SetDrawingStrategy(o)
    \/ \E o \in StrategyObjs, k \in StrategyKinds : SetNewDrawingStrategy(o, k)
    \/ \E w \in DrawPoints, b \in BOOLEAN : RegisterPoint(w, b)
    \/ \E b \in BOOLEAN : DrawingReset(b)
    \/ ResetSpheres
    \/ ResetBboxes

\* the sphere picking strategy under the drawing manager, with scrolling
NextScroll ==
    \/ \E o \in StrategyObjs : SetNewDrawingStrategy(o, "sphere_picking")
    \/ \E w \in DrawPoints, b \in BOOLEAN : RegisterPoint(w, b)
    \/ \E d \in ScrollDeltas : RegisterScrolling(d)
    \/ \E b \in BOOLEAN : DrawingReset(b)
    \/ ResetSpheres

\* centres, radii and box sizes drawn in the navigation specification
NavCentres == {P1}
NavRadii == {STD_SPHERE_RADIUS}
NavDimensions == {<<300, 400, 100>>}

\* navigation between the files, with the collections changing in between
NextNav ==
    \/ \E s \in BOOLEAN, p \in BOOLEAN : NextPcd(s, p)
    \/ \E p \in BOOLEAN : PrevPcd(p)
    \/ \E f \in Files, p \in BOOLEAN : CustomPcd(f, p)
    \/ \E c \in NavCentres, r \in NavRadii :
           current_id \in Files /\ Len(spheres) < MaxNavPrimitives /\ AddSphere(c, r)
    \/ \E c \in NavCentres, d \in NavDimensions :
           current_id \in Files /\ Len(bboxes) < MaxNavPrimitives /\ AddBbox(c, d)
    \/ current_id \in Files /\ DeleteCurrentSphere
    \/ current_id \in Files /\ CtlSetDrawingStrategy(1, "sphere_picking")

\* navigation between the files, with the modes of the controller changing
\* in between
NextNavMode ==
    \/ \E s \in BOOLEAN : NextPcd(s, FALSE)
    \/ PrevPcd(FALSE)
    \/ \E f \in Files : CustomPcd(f, FALSE)
    \/ current_id \in Files /\ Len(bboxes) < MaxNavPrimitives
           /\ AddBbox(P1, <<300, 400, 100>>)
    \/ current_id \in Files /\ CtlSetDrawingStrategy(1, "picking")
    \/ current_id \in Files /\ ChangeActivation
    \/ \E s \in Sides \cup {NoSide} : current_id \in Files /\ SetSelectedSide(s)
    \/ current_id \in Files /\ MouseMoveEvent(<<10, 10>>, "none", P1)
    \/ current_id \in Files /\ MouseClicked(<<10, 10>>, "right", P1)
    \/ current_id \in Files /\ MouseScrollEvent(240, P1)

SpecNavMode == Init /\ [][NextNavMode]_vars
\* cursor positions, mouse buttons and wheel deltas of the events
ScreenPoints == {<<10, 10>>, <<11, 10>>}
Buttons == {"none", "left", "right"}
WheelDeltas == {-960, 960}

\* radius of the spheres the wheel acts on: one step above the floor
WheelRadii == {MIN_RADIUS + STD_SPHERE_SCALING}

\* the wheel takes no radius further than MaxScrolls steps from the radii
\* above
WheelRadiiKept ==
    \A i \in 1..Len(spheres') : \E r \in WheelRadii :
        /\ spheres'[i].radius >= r - MaxScrolls * STD_SPHERE_SCALING
        /\ spheres'[i].radius <= r + MaxScrolls * STD_SPHERE_SCALING

\* a button held during a move was pressed before, and the press went to
\* mouse_clicked
Pressed(buttons) == buttons # "none" => ctl.last_cursor_pos # None

\* no collection grows beyond the primitives of the controller specifications
FewPrimitives ==
    Len(spheres') <= MaxNavPrimitives /\ Len(bboxes') <= MaxNavPrimitives

\* clicks, with the modes that decide where a click goes
NextClick ==
    \/ \E o \in StrategyObjs, k \in StrategyKinds : CtlSetDrawingStrategy(o, k)
    \/ ChangeActivation
    \/ \E s \in Sides \cup {NoSide} : SetSelectedSide(s)
    \/ KeyPressEvent("Key_Control")
    \/ KeyReleaseEvent("Key_Control")
    \/ \E b \in Buttons : MouseClicked(<<10, 10>>, b, P1) /\ FewPrimitives
    \/ MouseMoveEvent(<<10, 10>>, "none", P1)

\* moves of the mouse while a strategy is drawing
NextPreview ==
    \/ \E k \in StrategyKinds : CtlSetDrawingStrategy(1, k)
    \/ KeyPressEvent("Key_Control")
    \/ KeyReleaseEvent("Key_Control")
    \/ MouseClicked(<<10, 10>>, "left", P1) /\ FewPrimitives
    \/ \E p \in ScreenPoints, b \in {"none", "left"}, w \in DrawPoints :
           Pressed(b) /\ MouseMoveEvent(p, b, w)

\* drags of the mouse, with the modes that decide what a drag moves
NextDrag ==
    \/ Len(spheres) < MaxNavPrimitives /\ AddSphere(P0, STD_SPHERE_RADIUS)
    \/ Len(bboxes) < MaxNavPrimitives /\ AddBbox(P0, <<300, 400, 100>>)
    \/ \E k \in StrategyKinds : CtlSetDrawingStrategy(1, k)
    \/ ChangeActivation
    \/ KeyPressEvent("Key_Control")
    \/ KeyReleaseEvent("Key_Control")
    \/ KeyPressEvent("Key_Escape")
    \/ MouseClicked(<<10, 10>>, "right", P1)
    \/ \E p \in ScreenPoints, b \in Buttons :
           Pressed(b) /\ MouseMoveEvent(p, b, P1)

\* the locks of the wheel: side_mode and scroll_mode
NextLock ==
    \/ Len(bboxes) < MaxNavPrimitives /\ AddBbox(P1, <<300, 240, 120>>)
    \/ KeyPressEvent("Key_Delete")
    \/ \E s \in Sides \cup {NoSide} : SetSelectedSide(s)
    \/ \E p \in ScreenPoints : MouseMoveEvent(p, "none", P1)
    \/ MouseClicked(<<10, 10>>, "right", P1)
    \/ \E d \in WheelDeltas : MouseScrollEvent(d, P1)

\* the wheel over a sphere: the modes that decide what a scroll event changes
NextWheel ==
    \/ /\ Len(spheres) < MaxNavPrimitives
       /\ \E r \in WheelRadii : AddSphere(P0, r)
    \/ bboxes = << >> /\ AddBbox(P0, <<300, 240, 120>>)
    \/ \E k \in StrategyKinds : CtlSetDrawingStrategy(1, k)
    \/ KeyPressEvent("Key_Escape")
    \/ \E s \in {"top", NoSide} : SetSelectedSide(s)
    \/ \E p \in ScreenPoints : MouseMoveEvent(p, "none", P0)
    \/ \E d \in WheelDeltas, w \in {P0, P2} :
           MouseScrollEvent(d, w) /\ WheelRadiiKept

\* centres, radii and dimensions off the grid of the export precision
LabelCentres == {<<3, -7, 12>>}
LabelRadii == {7, 13}
LabelDimensions == {<<12, 8, 3>>}

\* the label files another program leaves
LeftFiles == {NoFile, Malformed, LacksObjects, LacksSpheres}

\* export and import of the labels of one point cloud, on collections of at
\* most MaxImport primitives of each kind
NextLabels ==
    \/ /\ Len(spheres) < MaxImport
       /\ \E c \in LabelCentres, r \in LabelRadii : AddSphere(c, r)
    \/ /\ Len(bboxes) < MaxImport
       /\ \E c \in LabelCentres, d \in LabelDimensions : AddBbox(c, d)
    \/ DeleteCurrentSphere
    \/ RotateWithMouse(1, 0)
    \/ \E r \in BOOLEAN : ExportLabelsTo(0, r)
    \/ \E r \in BOOLEAN : ImportLabelsFrom(0, r)
    \/ \E content \in LeftFiles : LabelFileLeft(0, content)

SpecLabels == Init /\ [][NextLabels]_vars

\* the keys take no box further than MaxKeySteps steps from P0
KeyCentresKept ==
    \A i \in 1..Len(bboxes') :
        /\ bboxes'[i].center[2] <= MaxKeySteps * STD_TRANSLATION
        /\ bboxes'[i].center[2] >= -(MaxKeySteps * STD_TRANSLATION)

\* the keys, with the modes that decide what a key changes
NextKeys ==
    \/ Len(spheres) < MaxNavPrimitives /\ AddSphere(P0, STD_SPHERE_RADIUS)
    \/ Len(bboxes) < MaxNavPrimitives /\ AddBbox(P0, <<300, 240, 120>>)
    \/ DeselectSphere
    \/ \E k \in StrategyKinds : CtlSetDrawingStrategy(1, k)
    \/ KeyPressEvent("Key_Escape")
    \/ KeyPressEvent("Key_Delete")
    \/ \E k \in BankKeys : KeyPressEvent(k) /\ KeyCentresKept

\* the keys of the drawing modes, with the clicks and moves that draw
NextModes ==
    \/ Len(spheres) < MaxNavPrimitives /\ AddSphere(P0, STD_SPHERE_RADIUS)
    \/ Len(bboxes) < MaxNavPrimitives /\ AddBbox(P0, <<300, 240, 120>>)
    \/ \E k \in StrategyKinds : CtlSetDrawingStrategy(1, k)
    \/ \E w \in {P1, P2} : MouseClicked(<<10, 10>>, "left", w) /\ FewPrimitives
    \/ MouseMoveEvent(<<11, 10>>, "none", P1)
    \/ KeyPressEvent("Key_Escape")
    \/ KeyPressEvent("Key_M")

\* the frames of the view, of collections in which any primitive may be
\* one that raises when it is drawn
NextPaint ==
    \/ Len(spheres) < MaxDrawn /\ AddSphere(P0, STD_SPHERE_RADIUS)
    \/ Len(bboxes) < MaxDrawn /\ AddBbox(P0, <<300, 240, 120>>)
    \/ DeselectSphere
    \/ \E bad_boxes \in SUBSET (1..Len(bboxes)),
          bad_spheres \in SUBSET (1..Len(spheres)) :
           PaintGL(bad_boxes, bad_spheres)

\* the wheel during a creation gesture, with and without ctrl, over
\* collections that a wheel outside a gesture would change
NextForward ==
    \/ spheres = << >> /\ AddSphere(P0, STD_SPHERE_RADIUS)
    \/ bboxes = << >> /\ AddBbox(P0, <<300, 240, 120>>)
    \/ \E k \in StrategyKinds : CtlSetDrawingStrategy(1, k)
    \/ KeyPressEvent("Key_Control")
    \/ KeyReleaseEvent("Key_Control")
    \/ KeyPressEvent("Key_Escape")
    \/ SetSelectedSide("top")
    \/ MouseMoveEvent(<<10, 10>>, "none", P0)
    \/ \E d \in WheelDeltas : MouseScrollEvent(d, P0)

SpecForward == Init /\ [][NextForward]_vars
\* what sets and what may unsettle the two primitive types: strategies set
\* through the controller, the mode key, gestures that commit, Escape and
\* the navigation between the files
NextSync ==
    \/ \E s \in BOOLEAN : NextPcd(s, FALSE)
    \/ PrevPcd(FALSE)
    \/ \E o \in StrategyObjs, k \in StrategyKinds :
           current_id \in Files /\ CtlSetDrawingStrategy(o, k)
    \/ \E o \in StrategyObjs : current_id \in Files /\ CtlSetExistingStrategy(o)
    \/ current_id \in Files /\ KeyPressEvent("Key_M")
    \/ current_id \in Files /\ KeyPressEvent("Key_Escape")
    \/ /\ current_id \in Files
       /\ spheres = << >> /\ bboxes = << >>
       /\ MouseClicked(<<10, 10>>, "left", P1)

SpecSync == Init /\ [][NextSync]_vars
\* the two ways to delete, in both modes, with and without active primitives
NextDelete ==
    \/ Len(spheres) < MaxDrawn /\ AddSphere(P0, STD_SPHERE_RADIUS)
    \/ Len(bboxes) < MaxDrawn /\ AddBbox(P0, <<300, 240, 120>>)
    \/ DeselectSphere
    \/ \E k \in StrategyKinds : CtlSetDrawingStrategy(1, k)
    \/ KeyPressEvent("Key_Escape")
    \/ KeyPressEvent("Key_Delete")
    \/ HandleDeleteButtonClicked

SpecDelete == Init /\ [][NextDelete]_vars
\* the steps of a relative selection
RelativeSteps == {-1, 0, 1}

\* relative selection in collections of every size up to the bounds, with
\* and without an active sphere
NextSelect ==
    \/ AddSphere(P0, STD_SPHERE_RADIUS)
    \/ AddBbox(P0, <<300, 240, 120>>)
    \/ DeselectSphere
    \/ \E step \in RelativeSteps : SelectRelativeSphere(step)
    \/ \E step \in RelativeSteps : SelectRelativeBbox(step)

SpecSelect == Init /\ [][NextSelect]_vars
SpecPaint == Init /\ [][NextPaint]_vars
SpecKeys == Init /\ [][NextKeys]_vars
SpecModes == Init /\ [][NextModes]_vars
SpecWheel == Init /\ [][NextWheel]_vars
SpecLock == Init /\ [][NextLock]_vars
SpecPreview == Init /\ [][NextPreview]_vars
SpecDrag == Init /\ [][NextDrag]_vars
SpecClick == Init /\ [][NextClick]_vars
SpecNav == Init /\ [][NextNav]_vars
SpecColl == Init /\ [][NextColl]_vars
SpecDraw == Init /\ [][NextDraw]_vars
SpecScroll == Init /\ [][NextScroll]_vars
Spec == Init /\ [][Next]_vars
SpecRadius == Init /\ [][NextRadius]_vars

---------------------------------------------------------------------------
(* The sphere collection: claims *)

\* the indices (from 1) of the spheres whose selected flag is set
SelectedSet == {i \in 1..Len(spheres) : spheres[i].selected}

\* centre and radius of a sphere, without its id and selected flag
Body(s) == <<s.center, s.radius>>

\* C1: after any sequence of add_sphere and delete_current_sphere calls (and
\* of the other operations that import no list), every sphere's id is its
\* index in the list.
IdsAreIndices ==
    \A i \in 1..Len(spheres) : spheres[i].id = Some(i - 1)

\* C1 witness: a deletion in front of two other spheres has renumbered them
IdsAreIndicesWitness ==
    /\ last.op = "delete_current_sphere"
    /\ last.pre_len = 3
    /\ last.pre_active = Some(0)
    /\ Len(spheres) = 2

\* C2: the spheres whose selected flag is set are exactly the sphere at
\* active_sphere_id when there is one, and none otherwise.
SelectedIsActive ==
    SelectedSet = IF HasActiveSphere(spheres, active_sphere_id)
                  THEN {Val(active_sphere_id) + 1}
                  ELSE {}

\* C3: active_sphere_id is None or an index of the list.
ActiveIdValid ==
    \/ active_sphere_id = None
    \/ /\ 0 <= Val(active_sphere_id)
       /\ Val(active_sphere_id) < Len(spheres)

\* C3 witness: an import of a list shorter than the old active id left the
\* first sphere active
ActiveIdValidWitness ==
    /\ last.op = "set_spheres"
    /\ last.pre_active = Some(2)
    /\ Len(spheres) = 1
    /\ active_sphere_id = Some(0)

\* C4: delete_current_sphere on n spheres with active index k removes the
\* sphere at k, keeps the others in order, and leaves the active id
\* min(k, n - 2), or None when the list becomes empty.
DeleteRemovesActive ==
    [][(last'.op = "delete_current_sphere"
          /\ HasActiveSphere(spheres, active_sphere_id))
       => LET n == Len(spheres)
              k == Val(active_sphere_id)
          IN  /\ Len(spheres') = n - 1
              /\ \A i \in 1..k : Body(spheres'[i]) = Body(spheres[i])
              /\ \A i \in (k + 1)..(n - 1) : Body(spheres'[i]) = Body(spheres[i + 1])
              /\ active_sphere_id' = IF n > 1 THEN Some(Min(k, n - 2)) ELSE None
      ]_vars

\* C4 witness: 3 spheres with active id 1 became 2 spheres, ids 0 and 1,
\* active id 1
DeleteRemovesActiveWitness ==
    /\ last.op = "delete_current_sphere"
    /\ last.pre_len = 3
    /\ last.pre_active = Some(1)
    /\ Len(spheres) = 2
    /\ spheres[1].id = Some(0)
    /\ spheres[2].id = Some(1)
    /\ spheres[1].center # spheres[2].center
    /\ active_sphere_id = Some(1)

\* C5: every sphere's radius is at least the minimum radius.
RadiusAtLeastMinimum ==
    \A i \in 1..Len(spheres) : spheres[i].radius >= MIN_RADIUS

\* C5 witness: a decrease that would have gone below the minimum
RadiusAtLeastMinimumWitness ==
    /\ last.op = "change_radius"
    /\ last.args = <<0, -100>>
    /\ spheres[1].radius = MIN_RADIUS

\* C6: select_sphere_by_ray whose point is within 1.5 x radius of the sphere
\* at minimum centre distance (the first such sphere of the list) leaves that
\* sphere active and selected.
RaySelectsClosest ==
    (last.op = "select_sphere_by_ray" /\ spheres # << >>)
    => LET c == ClosestSphere(spheres, last.args)
           d2 == Dist2(spheres[c].center, last.args)
       IN  2 * 2 * d2 <= 3 * 3 * spheres[c].radius * spheres[c].radius
           => /\ active_sphere_id = Some(c - 1)
              /\ spheres[c].selected

\* C7: select_sphere_by_ray on an empty list, or whose point is farther than
\* 1.5 x radius from the sphere at minimum centre distance (the first such
\* sphere of the list), changes neither the list nor the active id.
NoMatchChangesNothing ==
    [][(/\ last'.op = "select_sphere_by_ray"
        /\ \/ spheres = << >>
           \/ \E c \in 1..Len(spheres) :
                LET d2 == Dist2(spheres[c].center, last'.args)
                IN  /\ \A j \in 1..Len(spheres) :
                          d2 <= Dist2(spheres[j].center, last'.args)
                    /\ \A j \in 1..(c - 1) :
                          d2 < Dist2(spheres[j].center, last'.args)
                    /\ 2 * 2 * d2 > 3 * 3 * spheres[c].radius * spheres[c].radius)
       => UNCHANGED <<spheres, active_sphere_id>>
      ]_vars

\* C7 witness: a pick at distance 400 (0.8) from the only sphere, of radius
\* 250 (0.5), which was and stays active
NoMatchChangesNothingWitness ==
    /\ last.op = "select_sphere_by_ray"
    /\ Len(spheres) = 1
    /\ spheres[1].radius = 250
    /\ Dist2(spheres[1].center, last.args) = 400 * 400
    /\ active_sphere_id = Some(0)
    /\ spheres[1].selected

---------------------------------------------------------------------------
(* The drawing manager and the sphere picking strategy: claims *)

\* the points a strategy of this kind needs
PointsNeeded(kind) == IF kind = "sphere_picking" THEN 1 ELSE 2

\* the state a strategy has accumulated is gone
Discarded(s) ==
    /\ s.points_registered = 0
    /\ s.point_1 = None
    /\ s.tmp_p1 = None
    /\ s.kind = "sphere_picking" => s.sphere_radius = STD_SPHERE_RADIUS
    /\ s.kind = "picking" => s.point_2 = None

\* C8: a committing register_point that makes the active strategy finished
\* appends one primitive to the collection of the strategy's kind, with
\* id = new length - 1, makes it the active one, leaves the other collection
\* alone and the manager idle; one that does not finish it adds nothing and
\* the manager stays active.
CommitAddsOnePrimitive ==
    [][(last'.op = "register_point" /\ drawing_strategy # None)
       => LET s == strategies[Val(drawing_strategy)]
              n == Len(spheres)
              m == Len(bboxes)
          IN  IF s.points_registered + 1 >= PointsNeeded(s.kind)
              THEN /\ drawing_strategy' = None
                   /\ IF s.kind = "sphere_picking"
                      THEN /\ Len(spheres') = n + 1
                           /\ \A i \in 1..n : Body(spheres'[i]) = Body(spheres[i])
                           /\ spheres'[n + 1].center = last'.args
                           /\ spheres'[n + 1].id = Some(n)
                           /\ active_sphere_id' = Some(n)
                           /\ spheres'[n + 1].selected
                           /\ UNCHANGED <<bboxes, active_bbox_id>>
                      ELSE /\ Len(bboxes') = m + 1
                           /\ SubSeq(bboxes', 1, m) = bboxes
                           /\ bboxes'[m + 1].id = Some(m)
                           /\ active_bbox_id' = Some(m)
                           /\ UNCHANGED <<spheres, active_sphere_id>>
              ELSE /\ UNCHANGED <<spheres, active_sphere_id, bboxes, active_bbox_id>>
                   /\ drawing_strategy' = drawing_strategy
      ]_vars

\* C8 witness: a second sphere was committed while a box exists
CommitAddsOnePrimitiveWitness ==
    /\ last.op = "register_point"
    /\ Len(spheres) = 2
    /\ active_sphere_id = Some(1)
    /\ spheres[2].center = last.args
    /\ Len(bboxes) = 1
    /\ drawing_strategy = None

\* C9: set_drawing_strategy(s) with the active strategy makes the manager
\* idle and discards the strategy's points; with another strategy it
\* discards the state of the strategy that was active, makes s the active
\* strategy and the primitive type the kind s produces; no primitive is
\* added.
SetStrategyTogglesOrReplaces ==
    [][last'.op = "set_drawing_strategy"
       => LET o == last'.args[1]
          IN  /\ UNCHANGED <<spheres, active_sphere_id, bboxes, active_bbox_id>>
              /\ IF drawing_strategy = Some(o)
                 THEN /\ drawing_strategy' = None
                      /\ Discarded(strategies'[o])
                 ELSE /\ drawing_strategy # None
                         => Discarded(strategies'[Val(drawing_strategy)])
                      /\ drawing_strategy' = Some(o)
                      /\ dm_primitive_type' =
                            IF strategies'[o].kind = "sphere_picking"
                            THEN "sphere" ELSE "box"
      ]_vars

\* C9 witness: the active box strategy, holding its first point, was passed
\* again: the manager is idle and the point is gone
SetStrategyTogglesOrReplacesWitness ==
    /\ last.op = "set_drawing_strategy"
    /\ last.pre_strategy = Some(last.args[1])
    /\ last.pre_points = 1
    /\ drawing_strategy = None
    /\ strategies[last.args[1]].kind = "picking"
    /\ strategies[last.args[1]].points_registered = 0

\* the configured default radius adjusted by each scroll delta in turn, the
\* floor applied after each step
RECURSIVE ScrolledRadius(_, _)
ScrolledRadius(r, ds) ==
    IF ds = << >> THEN r
    ELSE ScrolledRadius(IF r + Head(ds) < 5 THEN 5 ELSE r + Head(ds), Tail(ds))

\* C10: for a sphere picking strategy, fresh or reset, that got the scroll
\* deltas d1..dn and any preview points, one register_point(p) makes it
\* finished and its sphere has centre p and the default radius adjusted by
\* d1..dn, floored after each step; a preview point does not change the
\* number of registered points.
SpherePickingProducesSphere ==
    [][/\ (last'.op = "register_point" /\ drawing_strategy # None
              /\ strategies[Val(drawing_strategy)].kind = "sphere_picking")
          => LET o == Val(drawing_strategy)
                 s == SphereRegisterPoint(strategies[o], last'.args)
                 expected == ScrolledRadius(250, scrolled[o])
             IN  /\ SphereIsFinished(s)
                 /\ SphereGetSphere(s).center = last'.args
                 /\ SphereGetSphere(s).radius = expected
                 /\ Body(spheres'[Len(spheres')]) = <<last'.args, expected>>
       /\ (last'.op = "register_tmp_point" /\ drawing_strategy # None)
          => /\ strategies'[Val(drawing_strategy)].points_registered
                   = strategies[Val(drawing_strategy)].points_registered
             /\ drawing_strategy' = drawing_strategy
             /\ UNCHANGED <<spheres, active_sphere_id>>
      ]_vars

\* C10 witness: after a first sphere of the default radius, a sphere was
\* committed whose radius went to the floor and up again (250 - 300 -> 5,
\* 5 + 120 = 125)
SpherePickingProducesSphereWitness ==
    /\ last.op = "register_point"
    /\ Len(spheres) = 2
    /\ spheres[1].radius = 250
    /\ spheres[2].radius = 125
    /\ spheres[2].center = last.args

\* C11: after set_spheres(list) with spheres freshly built by label import
\* (constructed without an id), every sphere of the collection has its index
\* as id.
ImportedIdsAreIndices ==
    last.op = "set_spheres"
        => \A i \in 1..Len(spheres) : spheres[i].id = Some(i - 1)

---------------------------------------------------------------------------
(* Navigation between the files: claims *)

NavOps == {"next_pcd", "prev_pcd", "custom_pcd"}

\* the last step was a navigation that loaded a file
Navigated == last.op \in NavOps /\ last.args.moved

\* centre, dimensions and rotation of a box, without its id
BoxBody(b) == <<b.center, b.dimensions, b.rotation>>

\* the boxes and the spheres a label file holds, as bodies
FileBoxes(f) ==
    [i \in 1..Len(label_files[f].objects) |->
        <<label_files[f].objects[i].centroid, label_files[f].objects[i].dimensions,
          label_files[f].objects[i].rotations>>]
FileSpheres(f) ==
    [i \in 1..Len(label_files[f].spheres) |->
        <<label_files[f].spheres[i].center, label_files[f].spheres[i].radius>>]

\* C12: after navigating to a file with next_pcd, prev_pcd or custom_pcd,
\* the sphere collection equals the spheres last saved for that file.
NavigationRestoresSpheres ==
    Navigated => [i \in 1..Len(spheres) |-> Body(spheres[i])] = FileSpheres(current_id)

\* C13: after a navigation to a different file, side_mode and scroll_mode
\* are false, selected_side is none, no drawing strategy is active and
\* alignment mode is inactive.
NavigationClearsInteractionState ==
    (Navigated /\ current_id # last.args.from)
        => /\ ~ctl.side_mode
           /\ ~ctl.scroll_mode
           /\ ctl.selected_side = NoSide
           /\ drawing_strategy = None
           /\ ~align.is_active

\* C14: after a navigation (with saving) to a file whose labels are empty
\* while propagate_labels is enabled, the collections hold the boxes and
\* the spheres of the file just left; otherwise they hold nothing but
\* primitives of the new file's labels.
PropagationSeedsNewFile ==
    (Navigated /\ last.args.save /\ current_id # last.args.from)
        => LET boxes == [i \in 1..Len(bboxes) |-> BoxBody(bboxes[i])]
               balls == [i \in 1..Len(spheres) |-> Body(spheres[i])]
           IN  IF label_files[current_id] = NoLabels /\ last.args.propagate_labels
               THEN /\ boxes = FileBoxes(last.args.from)
                    /\ balls = FileSpheres(last.args.from)
               ELSE /\ boxes = FileBoxes(current_id)
                    /\ \A i \in 1..Len(balls) :
                          \E j \in 1..Len(FileSpheres(current_id)) :
                              balls[i] = FileSpheres(current_id)[j]

EndOfFilesChangesNothing ==
    [][(last'.op = "next_pcd" /\ current_id + 1 >= MaxFiles)
          => /\ UNCHANGED <<current_id, spheres, active_sphere_id, bboxes,
                            active_bbox_id, strategies, drawing_strategy,
                            dm_primitive_type>>
             /\ last'.calls = <<[fn |-> "update_progress", arg |-> MaxFiles],
                                [fn |-> "button_next_pcd.setEnabled", arg |-> 0]>>
      ]_vars

\* C16 witness: next_pcd on the last file, with a sphere and a box in the
\* collections and a drawing strategy active
EndOfFilesChangesNothingWitness ==
    /\ last.op = "next_pcd"
    /\ ~last.args.moved
    /\ current_id = MaxFiles - 1
    /\ Len(spheres) = 1
    /\ Len(bboxes) = 1
    /\ drawing_strategy # None

---------------------------------------------------------------------------
(* The mouse: claims *)

\* ctl is as before but for the cursor positions
OnlyCursorChanged ==
    ctl' = [ctl EXCEPT !.last_cursor_pos = ctl'.last_cursor_pos,
                       !.curr_cursor_pos = ctl'.curr_cursor_pos]

\* C17: mouse_clicked goes, in this order, (1) with a strategy active, the
\* left button down and ctrl not held, to the drawing manager as a
\* committing point and nowhere else; (2) else with alignment active and
\* ctrl not held, to the align mode; (3) else with a side hovered, to
\* side_mode = true; (4) else nowhere: only last_cursor_pos changes.
ClickDispatch ==
    [][last'.op = "mouse_clicked"
          => LET b == last'.args.buttons
                 w == last'.args.world
                 case1 == drawing_strategy # None /\ b = "left" /\ ~ctl.ctrl_pressed
                 case2 == ~case1 /\ align.is_active /\ ~ctl.ctrl_pressed
                 case3 == ~case1 /\ ~case2 /\ ctl.selected_side # NoSide
             IN  /\ ctl'.last_cursor_pos # None
                 /\ ctl'.curr_cursor_pos = ctl.curr_cursor_pos
                 /\ case1 =>
                       /\ LET o == Val(drawing_strategy)
                          IN  \/ /\ drawing_strategy' = drawing_strategy
                                 /\ strategies'[o].points_registered
                                        = strategies[o].points_registered + 1
                                 /\ UNCHANGED <<spheres, bboxes>>
                              \/ /\ drawing_strategy' = None
                                 /\ Len(spheres') + Len(bboxes')
                                        = Len(spheres) + Len(bboxes) + 1
                       /\ align' = align
                       /\ OnlyCursorChanged
                 /\ case2 =>
                       /\ align' = [align EXCEPT !.point = w]
                       /\ OnlyCursorChanged
                       /\ UNCHANGED <<sphereVars, bboxVars, drawVars>>
                 /\ case3 =>
                       /\ ctl' = [ctl EXCEPT !.side_mode = TRUE,
                                             !.last_cursor_pos = ctl'.last_cursor_pos]
                       /\ UNCHANGED <<sphereVars, bboxVars, drawVars, align>>
                 /\ (~case1 /\ ~case2 /\ ~case3) =>
                       /\ OnlyCursorChanged
                       /\ UNCHANGED <<sphereVars, bboxVars, drawVars, align>>
      ]_vars

\* C17 witness: a left click without ctrl while a strategy was active, the
\* align mode was active and a side was hovered: the first point of a box
\* is registered, the align mode has no point and side_mode is not set
ClickDispatchWitness ==
    /\ last.op = "mouse_clicked"
    /\ last.args.buttons = "left"
    /\ ~ctl.ctrl_pressed
    /\ drawing_strategy # None
    /\ strategies[Val(drawing_strategy)].points_registered = 1
    /\ align.is_active
    /\ align.point = None
    /\ ctl.selected_side # NoSide
    /\ ~ctl.side_mode

\* C18 as stated: every mouse_move_event while a strategy is active sets
\* the strategy's preview point to the unprojected cursor position, whether
\* ctrl is held or not, and leaves the number of registered points alone.
PreviewFollowsEveryMove ==
    [][(last'.op = "mouse_move_event" /\ drawing_strategy # None)
          => LET o == Val(drawing_strategy)
             IN  /\ strategies'[o].tmp_p1 = last'.args.world
                 /\ strategies'[o].points_registered = strategies[o].points_registered
      ]_vars

\* C18, amended: a mouse_move_event while a strategy is active and ctrl is
\* not held sets the strategy's preview point to the unprojected cursor
\* position; while ctrl is held it leaves the strategy as it is; in both
\* cases the strategy stays active and the number of registered points and
\* the collections are left alone.
PreviewFollowsMoveWithoutCtrl ==
    [][(last'.op = "mouse_move_event" /\ drawing_strategy # None)
          => LET o == Val(drawing_strategy)
             IN  /\ ~ctl.ctrl_pressed => strategies'[o].tmp_p1 = last'.args.world
                 /\ ctl.ctrl_pressed => strategies' = strategies
                 /\ strategies'[o].points_registered = strategies[o].points_registered
                 /\ drawing_strategy' = drawing_strategy
                 /\ UNCHANGED <<spheres, active_sphere_id, bboxes, active_bbox_id>>
      ]_vars

\* C18 witness: with the first corner of a box registered and ctrl held, a
\* move to a point that is not the preview point left the preview point
PreviewFollowsMoveWithoutCtrlWitness ==
    /\ last.op = "mouse_move_event"
    /\ ctl.ctrl_pressed
    /\ drawing_strategy # None
    /\ strategies[Val(drawing_strategy)].kind = "picking"
    /\ strategies[Val(drawing_strategy)].points_registered = 1
    /\ strategies[Val(drawing_strategy)].tmp_p1 # None
    /\ strategies[Val(drawing_strategy)].tmp_p1 # last.args.world

\* C19: a mouse_move_event with a button held, (a) with ctrl held and
\* neither drawing nor alignment active, makes no call on the camera and
\* changes at most the active primitive of the current kind: a left drag
\* the rotation of the active box in box mode, a right drag the centre of
\* the active box, or of the active sphere in sphere mode, which becomes
\* the unprojected cursor point; (b) in every other case changes no
\* primitive, a left drag rotating and a right drag translating the camera.
DragMovesPrimitiveOrCamera ==
    [][(last'.op = "mouse_move_event" /\ last'.args.buttons # "none")
          => LET b == last'.args.buttons
                 w == last'.args.world
                 dx == last'.args.dx
                 dy == last'.args.dy
                 box == IF active_bbox_id = None THEN 0 ELSE Val(active_bbox_id) + 1
                 ball == IF active_sphere_id = None THEN 0 ELSE Val(active_sphere_id) + 1
             IN  IF ctl.ctrl_pressed /\ drawing_strategy = None /\ ~align.is_active
                 THEN /\ last'.calls = << >>
                      /\ UNCHANGED <<active_bbox_id, active_sphere_id>>
                      /\ Len(bboxes') = Len(bboxes)
                      /\ Len(spheres') = Len(spheres)
                      /\ \A i \in 1..Len(bboxes) : i # box => bboxes'[i] = bboxes[i]
                      /\ \A i \in 1..Len(spheres) : i # ball => spheres'[i] = spheres[i]
                      /\ ctl.primitive_type = "box" =>
                            /\ spheres' = spheres
                            /\ (b = "left" /\ box # 0) =>
                                  bboxes' = [bboxes EXCEPT ![box].rotation =
                                                bboxes'[box].rotation]
                            /\ (b = "right" /\ box # 0) =>
                                  bboxes' = [bboxes EXCEPT ![box].center = w]
                      /\ ctl.primitive_type = "sphere" =>
                            /\ bboxes' = bboxes
                            /\ b = "left" => spheres' = spheres
                            /\ (b = "right" /\ ball # 0) =>
                                  spheres' = [spheres EXCEPT ![ball].center = w]
                 ELSE /\ UNCHANGED <<spheres, active_sphere_id, bboxes, active_bbox_id>>
                      /\ b = "left" =>
                            last'.calls = <<[fn |-> "rotate_around_x", arg |-> dy],
                                            [fn |-> "rotate_around_z", arg |-> dx]>>
                      /\ b = "right" =>
                            last'.calls = <<[fn |-> "translate_along_x", arg |-> dx],
                                            [fn |-> "translate_along_y", arg |-> dy]>>
      ]_vars

\* C19 witness: in sphere mode, with ctrl held, a right drag moved the
\* active sphere from (0,0,0) to the cursor point, the box staying where
\* it was and the camera getting no call
DragMovesPrimitiveOrCameraWitness ==
    /\ last.op = "mouse_move_event"
    /\ last.args.buttons = "right"
    /\ last.calls = << >>
    /\ ctl.ctrl_pressed
    /\ ctl.primitive_type = "sphere"
    /\ Len(spheres) = 1
    /\ spheres[1].center = P1
    /\ Len(bboxes) = 1
    /\ bboxes[1].center = P0

\* C20: after a mouse_move_event whose relative movement dx or dy (the
\* difference of the pixels divided by 5) is greater than 0.1, side_mode
\* and scroll_mode are both false.
MoveReleasesBothLocks ==
    (last.op = "mouse_move_event"
        /\ (ExceedsThreshold(last.args.dx) \/ ExceedsThreshold(last.args.dy)))
    => (~ctl.side_mode /\ ~ctl.scroll_mode)

---------------------------------------------------------------------------
(* The wheel and the keys: claims *)

\* the cursor is known and within 1.5 x the radius of the active sphere
\* (4 d^2 <= 9 r^2), for the world point unprojected from the cursor
NearActiveSphere(world) ==
    /\ ctl.curr_cursor_pos # None
    /\ 4 * Dist2(spheres[Val(active_sphere_id) + 1].center, world)
           <= 9 * spheres[Val(active_sphere_id) + 1].radius
                * spheres[Val(active_sphere_id) + 1].radius

\* a scroll event that no strategy consumes and that drags no side of a box
ScrollLeftToSphereOrCamera ==
    /\ last'.op = "mouse_scroll_event"
    /\ ~(drawing_strategy # None /\ ~ctl.ctrl_pressed)
    /\ ~(/\ ctl.side_mode \/ ctl.selected_side # NoSide
         /\ active_bbox_id # None)

\* the active sphere's radius moved by one step in the direction of delta,
\* not below the minimum, and nothing else of the collection changed
RadiusStepped(delta) ==
    /\ active_sphere_id' = active_sphere_id
    /\ spheres' = [spheres EXCEPT ![Val(active_sphere_id) + 1].radius =
                      IF delta > 0 THEN @ + STD_SPHERE_SCALING
                      ELSE Max(@ - STD_SPHERE_SCALING, MIN_RADIUS)]

\* C21 (as stated): a scroll event in sphere mode with an active sphere and
\* the cursor within 1.5 x its radius, that no strategy consumes and that
\* drags no side, changes the radius of the active sphere by one step and
\* does not zoom, whatever scroll_mode is.
ScrollNearSphereAdjustsRadius ==
    [][(/\ ScrollLeftToSphereOrCamera
        /\ ctl.primitive_type = "sphere"
        /\ active_sphere_id # None
        /\ NearActiveSphere(last'.args.world))
       => (/\ RadiusStepped(last'.args.delta)
           /\ last'.calls = << >>)]_vars

\* C21 (amended): such a scroll event changes the radius by one step and
\* does not zoom when scroll_mode is not set; every other scroll event that
\* no strategy consumes and that drags no side zooms the camera by delta,
\* sets scroll_mode and leaves the spheres as they were.
ScrollAdjustsRadiusUnlessLocked ==
    [][ScrollLeftToSphereOrCamera
       => IF /\ ctl.primitive_type = "sphere"
             /\ active_sphere_id # None
             /\ ~ctl.scroll_mode
             /\ NearActiveSphere(last'.args.world)
          THEN /\ RadiusStepped(last'.args.delta)
               /\ last'.calls = << >>
               /\ ctl'.scroll_mode = ctl.scroll_mode
          ELSE /\ last'.calls = <<[fn |-> "zoom_into", arg |-> last'.args.delta]>>
               /\ ctl'.scroll_mode
               /\ UNCHANGED <<spheres, active_sphere_id>>]_vars

\* a scroll event has shrunk the active sphere from one step above the
\* minimum to the minimum radius, without a zoom
ScrollAdjustsRadiusUnlessLockedWitness ==
    /\ last.op = "mouse_scroll_event"
    /\ last.args.delta < 0
    /\ last.calls = << >>
    /\ ctl.primitive_type = "sphere"
    /\ ~ctl.scroll_mode
    /\ active_sphere_id = Some(0)
    /\ spheres[1].radius = MIN_RADIUS

\* C22: in sphere mode with an active sphere, key_press_event does the
\* operation of the key on the spheres: W moves the active sphere by one
\* step along y, + enlarges its radius by one step, G makes the next sphere
\* (the first after the last) the active one, 1 the sphere at position 0.
SphereKeysDriveActiveSphere ==
    (/\ last.op = "key_press_event"
     /\ last.args.key \in BankKeys
     /\ last.args.before.primitive_type = "sphere"
     /\ last.args.before.active_sphere_id # None)
    => LET b == last.args.before
           a == Val(b.active_sphere_id) + 1
       IN  /\ last.args.key = "Key_W" =>
                  \E d \in {STD_TRANSLATION, -STD_TRANSLATION} :
                      spheres = [b.spheres EXCEPT ![a].center[2] = @ + d]
           /\ last.args.key = "Key_Plus" =>
                  spheres = [b.spheres EXCEPT ![a].radius = @ + STD_SPHERE_SCALING]
           /\ last.args.key = "Key_G" =>
                  active_sphere_id = Some(a % Len(spheres))
           /\ last.args.key = "Key_1" => active_sphere_id = Some(0)

\* the sequence without its element at index k (from 1)
Without(seq, k) ==
    [i \in 1..(Len(seq) - 1) |-> IF i < k THEN seq[i] ELSE seq[i + 1]]

\* centres and radii of a list of spheres, in order
SphereBodies(sp) == [i \in 1..Len(sp) |-> Body(sp[i])]

\* centres, dimensions and rotations of a list of boxes, in order
BoxBodies(bb) == [i \in 1..Len(bb) |-> BoxBody(bb[i])]

\* C23: after key_press_event(Key_Delete), in sphere mode with an active
\* sphere that sphere is gone and the boxes and the active box are as
\* before; in box mode with an active box that box is gone and the spheres
\* and the active sphere are as before; otherwise both collections are as
\* before.
DeleteKeyRemovesActiveOfKind ==
    (last.op = "key_press_event" /\ last.args.key = "Key_Delete")
    => LET b == last.args.before
       IN  IF b.primitive_type = "sphere" /\ b.active_sphere_id # None
           THEN /\ SphereBodies(spheres)
                       = Without(SphereBodies(b.spheres), Val(b.active_sphere_id) + 1)
                /\ bboxes = b.bboxes
                /\ active_bbox_id = b.active_bbox_id
           ELSE IF b.primitive_type = "box" /\ b.active_bbox_id # None
           THEN /\ BoxBodies(bboxes)
                       = Without(BoxBodies(b.bboxes), Val(b.active_bbox_id) + 1)
                /\ spheres = b.spheres
                /\ active_sphere_id = b.active_sphere_id
           ELSE /\ spheres = b.spheres
                /\ active_sphere_id = b.active_sphere_id
                /\ bboxes = b.bboxes
                /\ active_bbox_id = b.active_bbox_id

\* Key_Delete in sphere mode has removed the only sphere and left the box
DeleteKeyRemovesActiveOfKindWitness ==
    /\ last.op = "key_press_event"
    /\ last.args.key = "Key_Delete"
    /\ last.args.before.primitive_type = "sphere"
    /\ Len(last.args.before.spheres) = 1
    /\ spheres = << >>
    /\ Len(bboxes) = 1
    /\ active_bbox_id = Some(0)

\* the other primitive type
Flipped(primitive_type) == IF primitive_type = "sphere" THEN "box" ELSE "sphere"

\* C24: every key_press_event(Key_M) flips primitive_type between box and
\* sphere; after it the drawing manager is active with a strategy of the
\* new kind that has no point and no scroll, the strategy that was active
\* before has lost its points, and the collections and the active ids are
\* as before; the second of two presses in a row gives back the
\* primitive_type found by the first.
ModeKeyFlipsPrimitiveType ==
    [][(last'.op = "key_press_event" /\ last'.args.key = "Key_M")
       => /\ ctl'.primitive_type = Flipped(ctl.primitive_type)
          /\ ctl'.primitive_type \in {"box", "sphere"}
          /\ drawing_strategy' # None
          /\ drawing_strategy' # drawing_strategy
          /\ LET s == strategies'[Val(drawing_strategy')]
             IN  /\ s.kind = IF ctl'.primitive_type = "sphere"
                             THEN "sphere_picking" ELSE "picking"
                 /\ s.points_registered = 0
                 /\ s.point_1 = None
                 /\ s.tmp_p1 = None
                 /\ s.kind = "sphere_picking" => s.sphere_radius = STD_SPHERE_RADIUS
          /\ scrolled'[Val(drawing_strategy')] = << >>
          /\ dm_primitive_type' = ctl'.primitive_type
          /\ drawing_strategy # None =>
                 strategies'[Val(drawing_strategy)].points_registered = 0
          /\ UNCHANGED <<spheres, active_sphere_id, bboxes, active_bbox_id>>
          /\ (last.op = "key_press_event" /\ last.args.key = "Key_M")
                 => ctl'.primitive_type = last.args.before.primitive_type]_vars

\* Key_M was pressed in box mode while a picking strategy was active: the
\* type is sphere, another strategy is active, no primitive was added
ModeKeyFlipsPrimitiveTypeWitness ==
    /\ last.op = "key_press_event"
    /\ last.args.key = "Key_M"
    /\ last.args.before.primitive_type = "box"
    /\ last.args.before.drawing_strategy # None
    /\ ctl.primitive_type = "sphere"
    /\ drawing_strategy # None
    /\ spheres = << >>
    /\ bboxes = << >>
    /\ \E o \in StrategyObjs :
          /\ strategies[o].kind = "picking"
          /\ Some(o) = last.args.before.drawing_strategy

\* C25: key_press_event(Key_Escape) with an active strategy leaves the
\* drawing manager without a strategy and both collections and their active
\* ids as they were; while there is no strategy a click or a move of the
\* mouse changes no strategy object and adds no primitive, and only
\* set_drawing_strategy (called directly or by Key_M) makes a strategy
\* active again.
EscapeReturnsToIdle ==
    [][/\ (/\ last'.op = "key_press_event"
           /\ last'.args.key = "Key_Escape"
           /\ drawing_strategy # None)
          => /\ drawing_strategy' = None
             /\ strategies'[Val(drawing_strategy)].points_registered = 0
             /\ UNCHANGED <<spheres, active_sphere_id, bboxes, active_bbox_id>>
       /\ (/\ last'.op \in {"mouse_clicked", "mouse_move_event"}
           /\ drawing_strategy = None)
          => /\ UNCHANGED <<strategies, drawing_strategy>>
             /\ Len(spheres') = Len(spheres)
             /\ Len(bboxes') = Len(bboxes)
       /\ (drawing_strategy = None /\ drawing_strategy' # None)
          => \/ last'.op = "ctl_set_drawing_strategy"
             \/ last'.op = "key_press_event" /\ last'.args.key = "Key_M"]_vars

\* Key_Escape was pressed while a strategy was active and a sphere and a box
\* were in the collections: no strategy is active, both are still there
EscapeReturnsToIdleWitness ==
    /\ last.op = "key_press_event"
    /\ last.args.key = "Key_Escape"
    /\ last.args.before.drawing_strategy # None
    /\ drawing_strategy = None
    /\ Len(spheres) = 1
    /\ active_sphere_id = Some(0)
    /\ Len(bboxes) = 1
    /\ active_bbox_id = Some(0)

\* C26: set_active_sphere(id) keeps the list, the ids, the centres and the
\* radii; with 0 <= id < length the id is the active one afterwards, its
\* sphere is selected and the sphere active before is not; with any other
\* id, None included, no id is active and no sphere is selected.
SetActiveSphereSelectsOrClears ==
    [][last'.op = "set_active_sphere"
       => LET id == last'.args
          IN  /\ Len(spheres') = Len(spheres)
              /\ \A i \in 1..Len(spheres) :
                     /\ spheres'[i].id = spheres[i].id
                     /\ spheres'[i].center = spheres[i].center
                     /\ spheres'[i].radius = spheres[i].radius
              /\ IF id # None /\ 0 <= Val(id) /\ Val(id) < Len(spheres)
                 THEN /\ active_sphere_id' = id
                      /\ spheres'[Val(id) + 1].selected
                      /\ (active_sphere_id # None /\ active_sphere_id # id)
                            => ~spheres'[Val(active_sphere_id) + 1].selected
                 ELSE /\ active_sphere_id' = None
                      /\ \A i \in 1..Len(spheres') : ~spheres'[i].selected]_vars

\* set_active_sphere got an id beyond the list while the second of two
\* spheres was active: no sphere is active or selected
SetActiveSphereSelectsOrClearsWitness ==
    /\ last.op = "set_active_sphere"
    /\ last.args = Some(2)
    /\ last.pre_active = Some(1)
    /\ Len(spheres) = 2
    /\ active_sphere_id = None
    /\ ~spheres[1].selected
    /\ ~spheres[2].selected

---------------------------------------------------------------------------
(* The label files: claims *)

\* a and b differ by no more than half the export precision
Close(a, b) == 2 * (a - b) <= ExportStep /\ 2 * (b - a) <= ExportStep

\* the same for the three coordinates of two vectors
CloseAll(v, w) == \A k \in 1..3 : Close(v[k], w[k])

UnreadableFileGivesNoLabels ==
    (last.op = "import_labels" /\ label_files[last.args.pcd] \in LeftFiles)
        => /\ ~last.args.raised
           /\ last.args.bboxes = << >>
           /\ last.args.spheres = << >>

---------------------------------------------------------------------------
(* The view: claims *)

\* C29: a frame of paintGL draws every box and every sphere whose drawing
\* does not raise, logs an error if one raised, and leaves the modelview
\* matrix stack as it found it.
FrameDrawsEveryOtherPrimitive ==
    last.op = "paintGL"
        => /\ last.args.frame.drawn_boxes = (1..Len(bboxes)) \ last.args.bad_boxes
           /\ last.args.frame.drawn_spheres
                  = (1..Len(spheres)) \ last.args.bad_spheres
           /\ (last.args.bad_boxes \cup last.args.bad_spheres # {})
                  => last.args.frame.logged >= 1
           /\ last.args.frame.matrix_stack = 0

---------------------------------------------------------------------------
(* The pointer: claims *)

\* the position the last move measured its deltas from
ReferencePosition ==
    <<Val(ctl.curr_cursor_pos)[1] + last.args.dx,
      Val(ctl.curr_cursor_pos)[2] + last.args.dy>>

\* C30: the deltas of mouse_move_event are measured from the position of
\* the last click, also in the second and later moves of a run of pointer
\* moves that follows the click.
DeltaFromLastClick ==
    (last.op = "mouse_move_event" /\ last.args.click # None)
        => ReferencePosition = Val(last.args.click)

---------------------------------------------------------------------------
(* The wheel during a creation gesture: claims *)

\* C31: a scroll event that arrives while a strategy is active and ctrl is
\* not held reaches the strategy and nothing else: no zoom of the camera,
\* scroll_mode as before, every box and every sphere as before; a sphere
\* picking strategy moves its radius by the delta, not below the minimum.
ScrollForwardedOnlyToStrategy ==
    [][(/\ last'.op = "mouse_scroll_event"
        /\ drawing_strategy # None
        /\ ~ctl.ctrl_pressed)
       => /\ last'.calls = << >>
          /\ ctl'.scroll_mode = ctl.scroll_mode
          /\ bboxes' = bboxes /\ active_bbox_id' = active_bbox_id
          /\ spheres' = spheres /\ active_sphere_id' = active_sphere_id
          /\ drawing_strategy' = drawing_strategy
          /\ LET before == strategies[Val(drawing_strategy)]
                 after == strategies'[Val(drawing_strategy)]
             IN  IF before.kind = "sphere_picking"
                 THEN after.sphere_radius
                          = (IF before.sphere_radius + last'.args.delta >= 5
                             THEN before.sphere_radius + last'.args.delta ELSE 5)
                 ELSE after = before]_vars

\* a wheel turn reached the sphere picking strategy in sphere mode over an
\* active sphere under the cursor and an active box with a side selected
ScrollForwardedOnlyToStrategyWitness ==
    /\ last.op = "mouse_scroll_event"
    /\ drawing_strategy # None
    /\ ~ctl.ctrl_pressed
    /\ strategies[Val(drawing_strategy)].kind = "sphere_picking"
    /\ strategies[Val(drawing_strategy)].sphere_radius # STD_SPHERE_RADIUS
    /\ ctl.primitive_type = "sphere"
    /\ HasActiveSphere(spheres, active_sphere_id)
    /\ ctl.curr_cursor_pos # None
    /\ HasActiveBbox(bboxes, active_bbox_id)
    /\ ctl.selected_side = "top"
    /\ ~ctl.scroll_mode
    /\ spheres[1].radius = STD_SPHERE_RADIUS
    /\ bboxes[1].dimensions = <<300, 240, 120>>

---------------------------------------------------------------------------
(* The drawing manager: reset *)

\* C32: reset(points_only) of an active manager clears what its strategy
\* has accumulated and leaves every other strategy object alone; the
\* manager stays active with the same strategy if points_only and becomes
\* idle otherwise; reset of an idle manager changes nothing; no reset
\* changes the boxes or the spheres.
ResetClearsPointsAndMaybeStrategy ==
    [][last'.op = "reset_drawing"
       => /\ spheres' = spheres /\ active_sphere_id' = active_sphere_id
          /\ bboxes' = bboxes /\ active_bbox_id' = active_bbox_id
          /\ IF drawing_strategy = None
             THEN strategies' = strategies /\ drawing_strategy' = None
             ELSE LET o == Val(drawing_strategy)
                      s == strategies'[o]
                  IN  /\ s.kind = strategies[o].kind
                      /\ s.points_registered = 0
                      /\ s.point_1 = None
                      /\ s.tmp_p1 = None
                      /\ s.kind = "sphere_picking" => s.sphere_radius = 250
                      /\ s.kind = "picking" => s.point_2 = None
                      /\ \A x \in StrategyObjs \ {o} : strategies'[x] = strategies[x]
                      /\ drawing_strategy' = IF last'.args[1] = 1
                                             THEN drawing_strategy ELSE None]_vars

\* reset(points_only=True) met a strategy with a point registered and left
\* it the active one, with no point
ResetClearsPointsAndMaybeStrategyWitness ==
    /\ last.op = "reset_drawing"
    /\ last.args[1] = 1
    /\ last.pre_points > 0
    /\ drawing_strategy # None
    /\ drawing_strategy = last.pre_strategy
    /\ strategies[Val(drawing_strategy)].points_registered = 0

---------------------------------------------------------------------------
(* The two primitive types: claims *)

\* C33: the primitive type of the controller is the primitive type of the
\* drawing manager, and while a strategy is active it is the kind of
\* primitive that strategy makes: spheres for sphere picking, boxes for
\* the others.
PrimitiveTypesAgree ==
    /\ ctl.primitive_type = dm_primitive_type
    /\ drawing_strategy # None
          => ctl.primitive_type
                 = (IF strategies[Val(drawing_strategy)].kind = "sphere_picking"
                    THEN "sphere" ELSE "box")

\* a navigation to another file left both types at "sphere", with no
\* strategy active and a sphere committed on the file before
PrimitiveTypesAgreeWitness ==
    /\ last.op \in NavOps
    /\ last.args.moved
    /\ last.args.from \in Files
    /\ Len(label_files[last.args.from].spheres) = 1
    /\ ctl.primitive_type = "sphere"
    /\ dm_primitive_type = "sphere"
    /\ drawing_strategy = None

---------------------------------------------------------------------------
(* The side of the active box: claims *)

\* C34: whenever side_mode is set a side is selected, so that the scroll
\* event that resizes the active box always has a side to resize.
SideModeHasSide == ctl.side_mode => ctl.selected_side # NoSide

\* a scroll event in side mode resized the active box on its selected side
SideModeHasSideWitness ==
    /\ last.op = "mouse_scroll_event"
    /\ ctl.side_mode
    /\ ctl.selected_side = "top"
    /\ HasActiveBbox(bboxes, active_bbox_id)
    /\ bboxes[Val(active_bbox_id) + 1].dimensions # <<300, 240, 120>>

---------------------------------------------------------------------------
(* The delete button: claims *)

\* C35: handle_delete_button_clicked leaves the two collections as the
\* Delete key leaves them from the same state: without the active sphere
\* in sphere mode, without the active box in box mode, and unchanged in
\* sphere mode with no active sphere.
DeleteButtonActsAsDeleteKey ==
    last.op = "handle_delete_button_clicked"
    => LET b == last.args.before
       IN  IF b.primitive_type = "sphere" /\ HasActiveSphere(b.spheres, b.active_sphere_id)
           THEN /\ Coll(spheres, active_sphere_id)
                       = DeleteCurrentSphereOp(b.spheres, b.active_sphere_id)
                /\ bboxes = b.bboxes
                /\ active_bbox_id = b.active_bbox_id
           ELSE IF b.primitive_type = "box"
           THEN /\ BboxColl(bboxes, active_bbox_id)
                       = DeleteCurrentBboxOp(b.bboxes, b.active_bbox_id)
                /\ spheres = b.spheres
                /\ active_sphere_id = b.active_sphere_id
           ELSE /\ spheres = b.spheres
                /\ active_sphere_id = b.active_sphere_id
                /\ bboxes = b.bboxes
                /\ active_bbox_id = b.active_bbox_id

\* the camera has been zoomed with no side selected, and no pointer move has
\* released the lock since
ScrollLocked == ctl.scroll_mode /\ ctl.selected_side = NoSide

\* C36: while scroll_mode is set with no side selected, a frame that finds
\* a side under the cursor does not select it, a scroll event that is not
\* forwarded to a strategy zooms the camera and leaves every box as it is,
\* and nothing but a pointer move ends that state.
ScrollLockPersists ==
    [][ScrollLocked
       => /\ last'.op = "set_selected_side" => ctl'.selected_side = NoSide
          /\ (/\ last'.op = "mouse_scroll_event"
              /\ ~(drawing_strategy # None /\ ~ctl.ctrl_pressed))
                => /\ Len(last'.calls) = 1
                   /\ last'.calls[1].fn = "zoom_into"
                   /\ last'.calls[1].arg = last'.args.delta
                   /\ bboxes' = bboxes
                   /\ spheres' = spheres
          /\ last'.op # "mouse_move_event"
                => ctl'.scroll_mode /\ ctl'.selected_side = NoSide /\ ~ctl'.side_mode
      ]_vars

\* a scroll event zoomed the camera in sphere mode with the cursor on the
\* active sphere and an active box in the collection: scroll_mode was set
\* before it, by an earlier zoom
ScrollLockPersistsWitness ==
    /\ last.op = "mouse_scroll_event"
    /\ ScrollLocked
    /\ drawing_strategy = None
    /\ Len(last.calls) = 1
    /\ HasActiveBbox(bboxes, active_bbox_id)
    /\ ctl.curr_cursor_pos # None
    /\ ctl.primitive_type = "sphere"
    /\ HasActiveSphere(spheres, active_sphere_id)
    /\ last.args.world = spheres[Val(active_sphere_id) + 1].center

---------------------------------------------------------------------------
(* Relative selection: claims *)

\* C37: select_relative_sphere and select_relative_bbox with step +1 make
\* the successor of the active index modulo the size of the collection the
\* active one, with step -1 the predecessor; select_relative_sphere with no
\* active sphere makes sphere 0 the active one, and with step 0 or on an
\* empty collection it changes nothing; no call changes a centre, a radius
\* or a dimension.
RelativeSelectionIsCyclic ==
    /\ last.op = "select_relative_sphere"
          => LET b == last.args.before
                 N == Len(b.spheres)
             IN  IF last.args.step = 0 \/ N = 0
                 THEN spheres = b.spheres /\ active_sphere_id = b.active_sphere_id
                 ELSE /\ SphereBodies(spheres) = SphereBodies(b.spheres)
                      /\ active_sphere_id
                             = (IF b.active_sphere_id = None THEN <<0>>
                                ELSE <<(Val(b.active_sphere_id) + N + last.args.step) % N>>)
                      /\ \A i \in 1..N :
                             spheres[i].selected <=> (i = Val(active_sphere_id) + 1)
    /\ last.op = "select_relative_bbox"
          => LET b == last.args.before
                 N == Len(b.bboxes)
             IN  /\ bboxes = b.bboxes
                 /\ active_bbox_id
                        = <<(Val(b.active_bbox_id) + N + last.args.step) % N>>

\* select_relative_sphere(+1) on the last of three spheres has made the
\* first one the active sphere
RelativeSelectionIsCyclicWitness ==
    /\ last.op = "select_relative_sphere"
    /\ last.args.step = 1
    /\ Len(spheres) = 3
    /\ last.args.before.active_sphere_id = <<2>>
    /\ active_sphere_id = <<0>>
    /\ spheres[1].selected
    /\ ~spheres[3].selected

---------------------------------------------------------------------------
(* The direction of a pointer move: claims *)

\* the absolute value of an integer
Abs(d) == IF d < 0 THEN -d ELSE d

\* C38: a pointer move whose damped delta exceeds MOVEMENT_THRESHOLD in
\* absolute value, in x or in y, releases the lock it finds, side_mode if
\* it is set and scroll_mode otherwise, whatever the direction of the move.
ReleaseIgnoresDirection ==
    [][(/\ last'.op = "mouse_move_event"
        /\ \/ 10 * Abs(last'.args.dx) > SMOOTHING * MOVEMENT_THRESHOLD
           \/ 10 * Abs(last'.args.dy) > SMOOTHING * MOVEMENT_THRESHOLD)
       => IF ctl.side_mode THEN ~ctl'.side_mode ELSE ~ctl'.scroll_mode]_vars

=============================================================================
